---------------------------- MODULE Spec2Model ----------------------------
(***************************************************************************)
(* Model of the Bismut VS Code extension's symbol cache (symbolCache.ts),  *)
(* the event handlers of extension.ts that drive it, and the analyzer      *)
(* promise it awaits.                                                      *)
(*                                                                         *)
(* Conventions                                                             *)
(*  - A JavaScript Map is a sequence of <<key, value>> pairs in insertion  *)
(*    order (Map iteration order); set() on a present key keeps its place. *)
(*  - `T | null` / `T | undefined` is a sequence of length 0 or 1.         *)
(*  - A string that the code takes apart (a symbol name) is a sequence of  *)
(*    one-character strings; other strings are TLA+ strings.               *)
(*  - A vscode.Uri is identified with the file path it was made from.      *)
(***************************************************************************)
EXTENDS Integers, Sequences, FiniteSets, TLC

\* ------------------------------------------------------------------ bounds

\* Longest symbol list of an analysis result in the index specification.
MaxSyms == 2
\* Largest debounce delay (in ticks) a debounced request may carry.
MaxDelay == 2
\* Most analyzer invocations pending at once (reached only if the
\* one-per-file policy is broken: the policy keeps them to one per file).
MaxInflight == 3
\* Most timers alive at once (reached only if a replaced timer is not
\* cancelled: cancelling keeps them to one per file).
MaxTimers == 3

\* Largest line, column and span of a diagnostic in the conversion
\* specification (the smallest is -1).
MaxCoord == 5

\* Ticks of the clock until the 30-second timer of an analyzer call is due.
MaxWait == 2
\* Most chunks the analyzer's child writes to stdout.
MaxChunks == 2
\* Most variables in the body of a debug adapter's response.
MaxVars == 2

\* ------------------------------------------------------------- JS helpers

Null == <<>>
Some(x) == <<x>>
IsSome(o) == Len(o) = 1
Val(o) == o[1]

\* The elements of a sequence.
Range(s) == { s[i] : i \in DOMAIN s }

\* Map.prototype.has / get / set / delete on a sequence of <<key, value>>.
MapHas(m, k) == \E i \in DOMAIN m : m[i][1] = k
MapIdx(m, k) == CHOOSE i \in DOMAIN m : m[i][1] = k
MapGet(m, k) == IF MapHas(m, k) THEN Some(m[MapIdx(m, k)][2]) ELSE Null
MapSet(m, k, v) ==
    IF MapHas(m, k)
    THEN [m EXCEPT ![MapIdx(m, k)] = <<k, v>>]
    ELSE Append(m, <<k, v>>)
MapDelete(m, k) ==
    LET Other(e) == e[1] # k IN SelectSeq(m, Other)
MapKeys(m) == [i \in DOMAIN m |-> m[i][1]]

\* Math.max / Math.abs
Max(a, b) == IF a >= b THEN a ELSE b
Abs(a) == IF a >= 0 THEN a ELSE 0 - a

\* ------------------------------------------------------------ symbol names

\* String.prototype.includes('.')
IncludesDot(name) == \E i \in DOMAIN name : name[i] = "."

\* name.split('.').pop(): the text after the last '.', the whole name when
\* there is none.
SplitPop(name) ==
    IF IncludesDot(name)
    THEN LET last == CHOOSE i \in DOMAIN name :
                        /\ name[i] = "."
                        /\ \A j \in DOMAIN name : name[j] = "." => j <= i
         IN  SubSeq(name, last + 1, Len(name))
    ELSE name

\* sym.name.includes('.') ? sym.name.split('.').pop()! : sym.name
SimpleName(name) == IF IncludesDot(name) THEN SplitPop(name) ELSE name

\* ------------------------------------------------------------------- data

\* File paths of the documents of the workspace.
Files == {"a.mut", "b.mut"}

\* Symbol names used by the analyzer results of the model.
nX == <<"x">>
nP == <<"P">>
nPx == <<"P", ".", "x">>
nQx == <<"Q", ".", "x">>

\* BismutSymbol (doc, which no cache operation reads, is left out).
Sym(name, kind, file, line, col, detail, parent) ==
    [name |-> name, kind |-> kind, file |-> file, line |-> line, col |-> col,
     detail |-> detail, parent |-> parent]

\* BismutDiagnostic
Diag(severity, file, line, col, span, message) ==
    [severity |-> severity, file |-> file, line |-> line, col |-> col,
     span |-> span, message |-> message]

\* AnalysisResult (success, error_count and warning_count, which the cache
\* never reads, are left out).
Result(file, symbols, diagnostics) ==
    [file |-> file, symbols |-> symbols, diagnostics |-> diagnostics]

\* All sequences over S of length at most n.
SeqsUpTo(S, n) == UNION { [1..k -> S] : k \in 0..n }

\* Symbols an analysis of file f may report in the index specification: a
\* variable and a field of f with the same simple name.
SymPool(f) ==
    { Sym(nX, "variable", f, 1, 1, "P", ""),
      Sym(nPx, "field", f, 2, 3, "int", "P") }

\* Analyzer results of the index specification.
IndexResults(f) ==
    { Result(f, ss, <<>>) : ss \in SeqsUpTo(SymPool(f), MaxSyms) }

\* Analyzer results of the scheduling specification: one with a diagnostic,
\* one without, with different symbols.
SchedResults(f) ==
    { Result(f, <<Sym(nX, "variable", f, 1, 1, "P", "")>>,
                <<Diag("error", f, 5, 3, 4, "undefined symbol")>>),
      Result(f, <<Sym(nQx, "field", f, 2, 3, "int", "Q")>>, <<>>) }

\* ------------------------------------------------- symbolCache.ts: helpers

\* index.get(name) ?? [] followed by push(sym) and index.set(name, list).
IndexPush(index, name, sym) ==
    LET got == MapGet(index, name)
        existing == IF IsSome(got) THEN Val(got) ELSE <<>>
    IN  MapSet(index, name, Append(existing, sym))

\* An indexing step that files a symbol under its full name only.
IndexSymbolFullOnly(index, sym) == IndexPush(index, sym.name, sym)

\* One iteration of buildIndex's loop: index by full name and, for a dotted
\* name, also by the text after the last dot.
IndexSymbol(index, sym) ==
    LET byFull == IndexPush(index, sym.name, sym)
    IN  IF IncludesDot(sym.name)
        THEN IndexPush(byFull, SplitPop(sym.name), sym)
        ELSE byFull

\* buildIndex's loop over result.symbols, from the index built so far.
RECURSIVE IndexSymbols(_, _)
IndexSymbols(index, syms) ==
    IF syms = <<>> THEN index
    ELSE IndexSymbols(IndexSymbol(index, Head(syms)), Tail(syms))

\* The per-file index buildIndex makes of a result: a fresh Map.
FileIndex(result) == IndexSymbols(<<>>, result.symbols)

\* rebuildGlobalIndex's inner loop: every name of one file's index is
\* appended to the global list of that name.
RECURSIVE MergeIndex(_, _)
MergeIndex(global, index) ==
    IF index = <<>> THEN global
    ELSE LET name == Head(index)[1]
             syms == Head(index)[2]
             got == MapGet(global, name)
             existing == IF IsSome(got) THEN Val(got) ELSE <<>>
         IN  MergeIndex(MapSet(global, name, existing \o syms), Tail(index))

\* rebuildGlobalIndex's outer loop over the per-file indices.
RECURSIVE MergeAll(_, _)
MergeAll(global, ni) ==
    IF ni = <<>> THEN global
    ELSE MergeAll(MergeIndex(global, Head(ni)[2]), Tail(ni))

\* A rebuild that forgets globalSymbols.clear().
RebuildNoClear(global, ni) == MergeAll(global, ni)

\* rebuildGlobalIndex: clear the global index, then merge every file's index.
RebuildGlobalIndex(global, ni) == MergeAll(<<>>, ni)

\* A toVsDiagnostic without the Math.max clamps.
ToVsDiagnosticUnclamped(d) ==
    [startLine |-> d.line - 1, startCol |-> d.col - 1, endLine |-> d.line - 1,
     endCol |-> d.col - 1 + d.span, message |-> d.message,
     severity |-> IF d.severity = "error" THEN "Error"
                  ELSE IF d.severity = "warning" THEN "Warning"
                  ELSE "Information"]

\* toVsDiagnostic: the zero-based range and the severity of a diagnostic.
ToVsDiagnostic(d) ==
    LET line == Max(0, d.line - 1)
        col == Max(0, d.col - 1)
        span == Max(1, d.span)
    IN  [startLine |-> line, startCol |-> col, endLine |-> line,
         endCol |-> col + span, message |-> d.message,
         severity |-> IF d.severity = "error" THEN "Error"
                      ELSE IF d.severity = "warning" THEN "Warning"
                      ELSE "Information"]

\* d.file || result.file
DiagFile(d, result) == IF d.file # "" THEN d.file ELSE result.file

\* A publishDiagnostics that does not clear the analyzed file first.
PublishDiagnosticsNoDelete(coll, result) ==
    LET InGroup(file) ==
            LET Mine(d) == DiagFile(d, result) = file
            IN  SelectSeq(result.diagnostics, Mine)
        grouped == { DiagFile(d, result) : d \in Range(result.diagnostics) }
    IN  [u \in DOMAIN coll |->
            IF u \in grouped
            THEN [i \in DOMAIN InGroup(u) |-> ToVsDiagnostic(InGroup(u)[i])]
            ELSE coll[u]]

\* publishDiagnostics: the collection after the result's diagnostics,
\* grouped by file in order, replace the analyzed file's and each group's.
PublishDiagnostics(coll, result) ==
    LET InGroup(file) ==
            LET Mine(d) == DiagFile(d, result) = file
            IN  SelectSeq(result.diagnostics, Mine)
        grouped == { DiagFile(d, result) : d \in Range(result.diagnostics) }
        Convert(ds) == [i \in DOMAIN ds |-> ToVsDiagnostic(ds[i])]
    IN  [u \in DOMAIN coll |->
            IF u \in grouped THEN Convert(InGroup(u))
            ELSE IF u = result.file THEN <<>>
            ELSE coll[u]]

\* ------------------------------------------------- symbolCache.ts: lookups
\* Each lookup takes the Map it reads, so that it can be evaluated in the
\* state before and in the state after a step.

\* getResult: this.cache.get(filePath) ?? null
GetResult(c, filePath) == MapGet(c, filePath)

\* getSymbols: this.cache.get(filePath)?.symbols ?? []
GetSymbols(c, filePath) ==
    IF MapHas(c, filePath) THEN Val(MapGet(c, filePath)).symbols ELSE <<>>

\* findSymbolsByName: this.globalSymbols.get(name) ?? []
FindSymbolsByName(global, name) ==
    IF MapHas(global, name) THEN Val(MapGet(global, name)) ELSE <<>>

\* findDefinition: the first candidate of a definition kind, else the first
\* candidate, null when the name has none.
FindDefinition(global, name) ==
    LET candidates == FindSymbolsByName(global, name)
        defKinds == {"function", "class", "struct", "interface", "enum",
                     "method", "field", "variable", "constant"}
        IsDef(sym) == sym.kind \in defKinds
        defs == SelectSeq(candidates, IsDef)
    IN  IF candidates = <<>> THEN Null
        ELSE IF defs # <<>> THEN Some(Head(defs))
        ELSE Some(Head(candidates))

\* A findMembers that scans the cached results last to first.
RECURSIVE FindMembersBackwards(_, _)
FindMembersBackwards(c, typeName) ==
    IF c = <<>> THEN <<>>
    ELSE LET IsMember(sym) == sym.parent = typeName
         IN  FindMembersBackwards(Tail(c), typeName)
                 \o SelectSeq(Head(c)[2].symbols, IsMember)

\* findMembers' loops: the symbols with parent typeName, over the cache in
\* Map order and each result in order.
RECURSIVE FindMembers(_, _)
FindMembers(c, typeName) ==
    IF c = <<>> THEN <<>>
    ELSE LET IsMember(sym) == sym.parent = typeName
         IN  SelectSeq(Head(c)[2].symbols, IsMember)
                 \o FindMembers(Tail(c), typeName)

\* findSymbolAt's loop: best and bestDist (Null is Infinity) after syms.
RECURSIVE ClosestOnLine(_, _, _, _, _, _)
ClosestOnLine(syms, filePath, line, col, best, bestDist) ==
    IF syms = <<>> THEN best
    ELSE LET sym == Head(syms)
             dist == Abs(sym.col - col)
             closer == /\ sym.file = filePath
                       /\ sym.line = line
                       /\ (bestDist = Null \/ dist < Val(bestDist))
         IN  IF closer
             THEN ClosestOnLine(Tail(syms), filePath, line, col,
                                Some(sym), Some(dist))
             ELSE ClosestOnLine(Tail(syms), filePath, line, col,
                                best, bestDist)

\* A findSymbolAt that takes the first symbol of the file on the line,
\* whatever its column.
FindSymbolAtFirstOnLine(c, filePath, line, col) ==
    IF ~MapHas(c, filePath) THEN Null
    ELSE LET OnLine(sym) == sym.file = filePath /\ sym.line = line
             hits == SelectSeq(Val(MapGet(c, filePath)).symbols, OnLine)
         IN  IF hits = <<>> THEN Null ELSE Some(Head(hits))

\* findSymbolAt
FindSymbolAt(c, filePath, line, col) ==
    IF ~MapHas(c, filePath) THEN Null
    ELSE ClosestOnLine(Val(MapGet(c, filePath)).symbols, filePath, line, col,
                       Null, Null)

\* A findVariableType that takes the first symbol of that kind and name,
\* with or without a detail.
FindVariableTypeAnyDetail(c, filePath, varName) ==
    IF ~MapHas(c, filePath) THEN Null
    ELSE LET syms == Val(MapGet(c, filePath)).symbols
             Named(sym) ==
                 /\ sym.kind \in {"variable", "constant", "parameter", "field"}
                 /\ SimpleName(sym.name) = varName
             hits == SelectSeq(syms, Named)
         IN  IF hits = <<>> THEN Null ELSE Some(Head(hits).detail)

\* findVariableType: the detail of the first variable-like symbol of the
\* file with that simple name and a non-empty detail.
FindVariableType(c, filePath, varName) ==
    IF ~MapHas(c, filePath) THEN Null
    ELSE LET syms == Val(MapGet(c, filePath)).symbols
             Typed(sym) ==
                 /\ sym.kind \in {"variable", "constant", "parameter", "field"}
                 /\ SimpleName(sym.name) = varName
                 /\ sym.detail # ""
             hits == SelectSeq(syms, Typed)
         IN  IF hits = <<>> THEN Null ELSE Some(Head(hits).detail)

\* ------------------------------------------------------------------ state

VARIABLES
    cache,           \* SymbolCache.cache: Map filePath -> AnalysisResult
    nameIndex,       \* SymbolCache.nameIndex: Map filePath -> Map name -> syms
    globalSymbols,   \* SymbolCache.globalSymbols: Map name -> syms
    diagnostics,     \* the DiagnosticCollection: uri -> displayed diagnostics
    debounceTimers,  \* SymbolCache.debounceTimers: filePath -> timer handle
    analyzing,       \* SymbolCache.analyzing: Set of file paths
    inflight,        \* pending analyzer.analyze promises, in start order
    timers,          \* the runtime's live setTimeout timers
    openDocs,        \* vscode.workspace.textDocuments (Bismut documents)
    disposed,        \* deactivate() has run
    last,            \* history: the handler that ran last and what it saw
    quietClosed      \* history: files closed with no request for them since

vars == <<cache, nameIndex, globalSymbols, diagnostics, debounceTimers,
          analyzing, inflight, timers, openDocs, disposed, last, quietClosed>>

cacheVars == <<cache, nameIndex, globalSymbols, diagnostics>>
timerVars == <<debounceTimers, timers>>

\* A record of the handler that ran: its file, whether an analyzer
\* invocation was started, what analyzeFile returned (or the analyzer
\* resolved with), the file's cached result before it ran, and whether the
\* resolved invocation was older than one already applied.
Ran(op, file, started, ret, prev, stale) ==
    [op |-> op, file |-> file, started |-> started, ret |-> ret,
     prev |-> prev, stale |-> stale]

\* The state after construction (lines 10-21) with no document open.
Init ==
    /\ cache = <<>>
    /\ nameIndex = <<>>
    /\ globalSymbols = <<>>
    /\ diagnostics = [u \in Files |-> <<>>]
    /\ debounceTimers = [f \in Files |-> Null]
    /\ analyzing = {}
    /\ inflight = <<>>
    /\ timers = {}
    /\ openDocs = {}
    /\ disposed = FALSE
    /\ last = Ran("init", "", FALSE, Null, Null, FALSE)
    /\ quietClosed = {}

\* ------------------------------------------------------------- analyzeFile

\* A guard that never coalesces.
CoalescedNever(filePath) == FALSE

\* Line 34: this.analyzing.has(filePath)
Coalesced(filePath) == filePath \in analyzing

\* A set as a sequence, in some fixed order.
RECURSIVE SetToSeq(_)
SetToSeq(S) ==
    IF S = {} THEN <<>>
    ELSE LET x == CHOOSE y \in S : TRUE IN <<x>> \o SetToSeq(S \ {x})

\* An analyzeFile that starts the invocation without analyzing.add.
CallAnalyzeFileNoAdd(S) ==
    LET fresh == { f \in S : ~Coalesced(f) }
        started == [i \in 1..Cardinality(fresh) |->
                        [file |-> SetToSeq(fresh)[i], stale |-> FALSE]]
    IN  /\ Len(inflight) + Cardinality(fresh) <= MaxInflight
        /\ analyzing' = analyzing
        /\ inflight' = inflight \o started

\* analyzeFile up to its await, called for each file of S in turn: a file
\* not being analyzed is added to analyzing and an analyzer invocation is
\* started for it; for a file being analyzed nothing changes.
CallAnalyzeFile(S) ==
    LET fresh == { f \in S : ~Coalesced(f) }
        started == [i \in 1..Cardinality(fresh) |->
                        [file |-> SetToSeq(fresh)[i], stale |-> FALSE]]
    IN  /\ Len(inflight) + Cardinality(fresh) <= MaxInflight
        /\ analyzing' = analyzing \cup fresh
        /\ inflight' = inflight \o started

\* One analyzeFile(filePath) call made by handler op; what the call returns
\* at once when it is coalesced is the cached result or null (line 35).
RequestNow(op, filePath) ==
    /\ CallAnalyzeFile({filePath})
    /\ last' = Ran(op, filePath, ~Coalesced(filePath),
                   IF Coalesced(filePath) THEN GetResult(cache, filePath)
                   ELSE Null,
                   GetResult(cache, filePath), FALSE)
    /\ quietClosed' = quietClosed \ {filePath}

\* An event that the configuration gates off: nothing is requested.
Skipped(filePath) ==
    /\ last' = Ran("skip", filePath, FALSE, Null, GetResult(cache, filePath),
                   FALSE)
    /\ UNCHANGED <<analyzing, inflight, quietClosed>>

\* --------------------------------------------------- analyzeFile: the result

\* A buildIndex that adds the result's symbols to the file's old index.
BuildIndexMerge(ni, filePath, result) ==
    LET got == MapGet(ni, filePath)
        old == IF IsSome(got) THEN Val(got) ELSE <<>>
    IN  MapSet(ni, filePath, IndexSymbols(old, result.symbols))

\* buildIndex up to its rebuild: nameIndex with the file's fresh index set.
BuildIndex(ni, filePath, result) == MapSet(ni, filePath, FileIndex(result))

\* A completion that drops the file's cached result when the analyzer failed.
CacheAfterDropOnFail(c, filePath, outcome) ==
    IF IsSome(outcome) THEN MapSet(c, filePath, Val(outcome))
    ELSE MapDelete(c, filePath)

\* Lines 41-42: the cache after the analyzer resolved with outcome.
CacheAfter(c, filePath, outcome) ==
    IF IsSome(outcome) THEN MapSet(c, filePath, Val(outcome)) ELSE c

\* The pending invocations after the one at position i resolved: it is
\* removed, and if its result was applied every invocation of the same file
\* started before it is from now on older than an applied result.
InflightAfter(pending, i, applied) ==
    LET marked == [j \in DOMAIN pending |->
                      IF applied /\ j < i /\ pending[j].file = pending[i].file
                      THEN [pending[j] EXCEPT !.stale = TRUE]
                      ELSE pending[j]]
    IN  SubSeq(marked, 1, i - 1) \o SubSeq(marked, i + 1, Len(marked))

\* analyzeFile from its await to its end (lines 40-49): the analyzer promise
\* of the invocation at position i resolves with outcome, a result or null.
\* The continuation runs as one microtask: no other handler interleaves.
AnalyzerResolve(i, outcome) ==
    LET filePath == inflight[i].file
    IN  /\ cache' = CacheAfter(cache, filePath, outcome)
        /\ nameIndex' = IF IsSome(outcome)
                        THEN BuildIndex(nameIndex, filePath, Val(outcome))
                        ELSE nameIndex
        /\ globalSymbols' = IF IsSome(outcome)
                            THEN RebuildGlobalIndex(globalSymbols, nameIndex')
                            ELSE globalSymbols
        /\ diagnostics' = IF IsSome(outcome)
                          THEN PublishDiagnostics(diagnostics, Val(outcome))
                          ELSE diagnostics
        /\ analyzing' = analyzing \ {filePath}
        /\ inflight' = InflightAfter(inflight, i, IsSome(outcome))
        /\ last' = Ran("resolve", filePath, FALSE, outcome,
                       GetResult(cache, filePath), inflight[i].stale)
        /\ UNCHANGED <<timerVars, openDocs, disposed, quietClosed>>

\* ----------------------------------------------------- analyzeFileDebounced

\* A clearTimeout that cancels nothing.
ClearTimeoutNothing(ts, handle) == ts

\* clearTimeout(handle)
ClearTimeout(ts, handle) == { t \in ts : t.id # handle }

\* The handles setTimeout may return: not those of live timers, nor one
\* the cache still holds.
FreeHandles(ts, held) ==
    { h \in 1..MaxTimers :
        /\ \A t \in ts : t.id # h
        /\ \A f \in Files : held[f] # Some(h) }

\* analyzeFileDebounced(filePath, delayMs), lines 52-64.
AnalyzeFileDebounced(filePath, delayMs) ==
    LET existing == debounceTimers[filePath]
        kept == IF IsSome(existing) THEN ClearTimeout(timers, Val(existing))
                ELSE timers
        free == FreeHandles(kept, [debounceTimers EXCEPT ![filePath] = Null])
        handle == CHOOSE h \in free : \A g \in free : h <= g
    IN  /\ free # {}
        /\ timers' = kept \cup
               {[id |-> handle, file |-> filePath, remaining |-> delayMs]}
        /\ debounceTimers' = [debounceTimers EXCEPT ![filePath] = Some(handle)]
        /\ last' = Ran("debounce", filePath, FALSE, Null,
                       GetResult(cache, filePath), FALSE)
        /\ quietClosed' = quietClosed \ {filePath}
        /\ UNCHANGED <<analyzing, inflight>>

\* The timer callback of lines 59-62: the entry is deleted, then analyzeFile
\* is called.
TimerFire(t) ==
    /\ t.remaining = 0
    /\ timers' = timers \ {t}
    /\ debounceTimers' = [debounceTimers EXCEPT ![t.file] = Null]
    /\ RequestNow("fire", t.file)
    /\ UNCHANGED <<cacheVars, openDocs, disposed>>

\* Time passes by one unit: possible when no live timer is due.
Tick ==
    /\ timers # {}
    /\ \A t \in timers : t.remaining > 0
    /\ timers' = { [t EXCEPT !.remaining = t.remaining - 1] : t \in timers }
    /\ last' = Ran("tick", "", FALSE, Null, Null, FALSE)
    /\ UNCHANGED <<cacheVars, debounceTimers, analyzing, inflight, openDocs,
                   disposed, quietClosed>>

\* --------------------------------------------- clearFile, clearAll, dispose

\* A clearFile that leaves the global index as it is.
GlobalAfterClearKept(global, ni) == global

\* clearFile's rebuild (line 150) of the global index from what is left.
GlobalAfterClear(global, ni) == RebuildGlobalIndex(global, ni)

\* clearFile(filePath), lines 147-151.
ClearFile(filePath) ==
    /\ cache' = MapDelete(cache, filePath)
    /\ nameIndex' = MapDelete(nameIndex, filePath)
    /\ globalSymbols' = GlobalAfterClear(globalSymbols, nameIndex')

\* clearAll(), lines 153-158. No handler of extension.ts calls it; it is
\* part of the cache's public interface.
ClearAll ==
    /\ ~disposed
    /\ cache' = <<>>
    /\ nameIndex' = <<>>
    /\ globalSymbols' = <<>>
    /\ diagnostics' = [u \in DOMAIN diagnostics |-> <<>>]
    /\ last' = Ran("clearAll", "", FALSE, Null, Null, FALSE)
    /\ UNCHANGED <<timerVars, analyzing, inflight, openDocs, disposed,
                   quietClosed>>

\* A dispose that forgets the timers without clearing them.
DisposeTimersLeft ==
    /\ ~disposed
    /\ timers' = timers
    /\ debounceTimers' = [f \in Files |-> Null]
    /\ disposed' = TRUE
    /\ last' = [op |-> "dispose", file |-> "", started |-> FALSE,
                ret |-> Null, prev |-> Null, stale |-> FALSE,
                cleared |-> { f \in Files : debounceTimers[f] # Null }]
    /\ UNCHANGED <<cacheVars, analyzing, inflight, openDocs, quietClosed>>

\* deactivate() -> dispose(), lines 160-165: every timer the cache holds is
\* cancelled and the handlers are unsubscribed.
Dispose ==
    /\ ~disposed
    /\ timers' = { t \in timers :
                     \A f \in Files : debounceTimers[f] # Some(t.id) }
    /\ debounceTimers' = [f \in Files |-> Null]
    /\ disposed' = TRUE
    /\ last' = [op |-> "dispose", file |-> "", started |-> FALSE,
                ret |-> Null, prev |-> Null, stale |-> FALSE,
                cleared |-> { f \in Files : debounceTimers[f] # Null }]
    /\ UNCHANGED <<cacheVars, analyzing, inflight, openDocs, quietClosed>>

\* ------------------------------------------------- extension.ts: handlers

\* onDidOpenTextDocument, lines 83-87.
OpenDoc(f) ==
    /\ ~disposed
    /\ f \notin openDocs
    /\ openDocs' = openDocs \cup {f}
    /\ RequestNow("open", f)
    /\ UNCHANGED <<cacheVars, timerVars, disposed>>

\* A save handler that does not read bismut.analyzeOnSave.
SaveDocAlways(f, analyzeOnSave) ==
    /\ ~disposed
    /\ f \in openDocs
    /\ RequestNow("save", f)
    /\ UNCHANGED <<cacheVars, timerVars, openDocs, disposed>>

\* onDidSaveTextDocument, lines 93-100, with bismut.analyzeOnSave as read.
SaveDoc(f, analyzeOnSave) ==
    /\ ~disposed
    /\ f \in openDocs
    /\ IF analyzeOnSave THEN RequestNow("save", f) ELSE Skipped(f)
    /\ UNCHANGED <<cacheVars, timerVars, openDocs, disposed>>

\* onDidChangeTextDocument, lines 106-114, with bismut.analyzeOnType and
\* bismut.analyzeDebounceMs as read.
ChangeDoc(f, analyzeOnType, delay) ==
    /\ ~disposed
    /\ f \in openDocs
    /\ IF analyzeOnType
       THEN AnalyzeFileDebounced(f, delay)
       ELSE Skipped(f) /\ UNCHANGED timerVars
    /\ UNCHANGED <<cacheVars, openDocs, disposed>>

\* onDidCloseTextDocument, lines 120-125.
CloseDoc(f) ==
    /\ ~disposed
    /\ f \in openDocs
    /\ openDocs' = openDocs \ {f}
    /\ diagnostics' = [diagnostics EXCEPT ![f] = <<>>]
    /\ ClearFile(f)
    /\ last' = Ran("close", f, FALSE, Null, GetResult(cache, f), FALSE)
    /\ quietClosed' = quietClosed \cup {f}
    /\ UNCHANGED <<timerVars, analyzing, inflight, disposed>>

\* The bismut.analyze command, lines 72-77, on the active editor's document.
AnalyzeCommand(f) ==
    /\ ~disposed
    /\ f \in openDocs
    /\ RequestNow("command", f)
    /\ UNCHANGED <<cacheVars, timerVars, openDocs, disposed>>

\* onDidChangeConfiguration, lines 131-140, for a change of compilerPath or
\* compilerDir: every open document is analyzed again.
ConfigChanged ==
    /\ ~disposed
    /\ openDocs # {}
    /\ CallAnalyzeFile(openDocs)
    /\ last' = Ran("config", "", \E f \in openDocs : ~Coalesced(f), Null,
                   Null, FALSE)
    /\ UNCHANGED <<cacheVars, timerVars, openDocs, disposed, quietClosed>>

\* ----------------------------------------------------------- specifications

\* What the analyzer may resolve with for a file: null or a result.
Outcomes(results) == {Null} \cup { Some(r) : r \in results }

\* The scheduling specification: every handler, timers and time, few results.
Next ==
    \/ \E f \in Files : OpenDoc(f)
    \/ \E f \in Files, on \in BOOLEAN : SaveDoc(f, on)
    \/ \E f \in Files, on \in BOOLEAN, d \in 1..MaxDelay : ChangeDoc(f, on, d)
    \/ \E f \in Files : CloseDoc(f)
    \/ \E f \in Files : AnalyzeCommand(f)
    \/ ConfigChanged
    \/ \E t \in timers : TimerFire(t)
    \/ Tick
    \/ \E i \in DOMAIN inflight :
          \E o \in Outcomes(SchedResults(inflight[i].file)) :
              AnalyzerResolve(i, o)
    \/ ClearAll
    \/ Dispose

Spec == Init /\ [][Next]_vars

\* The index specification: immediate requests, closes and clearAll, with
\* every symbol list up to MaxSyms as a result.
NextIndex ==
    \/ \E f \in Files : OpenDoc(f)
    \/ \E f \in Files : SaveDoc(f, TRUE)
    \/ \E f \in Files : CloseDoc(f)
    \/ \E i \in DOMAIN inflight :
          \E o \in Outcomes(IndexResults(inflight[i].file)) :
              AnalyzerResolve(i, o)
    \/ ClearAll

SpecIndex == Init /\ [][NextIndex]_vars

\* ================================================================= claims

\* The handlers that call analyzeFile once for one file.
RequestOps == {"open", "save", "command", "fire"}

\* The analyzer invocations pending for file f.
PendingFor(f) == { i \in DOMAIN inflight : inflight[i].file = f }

\* Names looked up: every name and simple name of the results, and two
\* names no result has.
LookupNames == {nX, nP, nPx, nQx, <<"y">>, <<"P", ".">>}

\* Owner names looked up by findMembers.
LookupOwners == {"P", "Q", "", "R"}

\* Positions looked up by findSymbolAt.
LookupLines == {1, 2, 3}
LookupCols == {1, 2}

\* sym is found under name n: its full name or its simple name is n.
NamedBy(sym, n) == sym.name = n \/ SimpleName(sym.name) = n

\* The symbols of the cached results c found under n: files in Map order,
\* each result in its own order.
RECURSIVE NamedIn(_, _)
NamedIn(c, n) ==
    IF c = <<>> THEN <<>>
    ELSE LET Hit(sym) == NamedBy(sym, n)
         IN  SelectSeq(Head(c)[2].symbols, Hit) \o NamedIn(Tail(c), n)

\* The cached results before and after file f's entry in Map order.
Before(c, f) == SubSeq(c, 1, MapIdx(c, f) - 1)
After(c, f) == SubSeq(c, MapIdx(c, f) + 1, Len(c))

\* ---------------------------------------------------------------------- C1
\* C1: in every reachable state at most one analyzer invocation is pending
\* per file; a request for F (an event's or a fired timer's) that arrives
\* while F is being analyzed starts no invocation and returns the cached
\* result of F, or null when there is none, while a request for a file with
\* no pending invocation starts exactly one, whatever is pending for other
\* files.
C1_OneInFlightPerFile ==
    /\ [](\A f \in Files : Cardinality(PendingFor(f)) <= 1)
    /\ [][\A f \in Files :
            (last'.op \in RequestOps /\ last'.file = f)
            => IF PendingFor(f) # {}
               THEN /\ inflight' = inflight
                    /\ ~last'.started
                    /\ last'.ret = GetResult(cache, f)
               ELSE /\ inflight' = Append(inflight,
                                          [file |-> f, stale |-> FALSE])
                    /\ last'.started]_vars

\* A request for a.mut was coalesced and returned its cached result while
\* both files were being analyzed.
C1_Witness ==
    /\ last.op \in RequestOps
    /\ last.file = "a.mut"
    /\ ~last.started
    /\ IsSome(last.ret)
    /\ PendingFor("a.mut") # {}
    /\ PendingFor("b.mut") # {}

C3_FailureKeepsState ==
    [][((last'.op = "resolve" /\ last'.ret = Null /\ inflight' # inflight)
          \/ (last'.op \in RequestOps \cup {"config"}))
       => UNCHANGED cacheVars]_vars

\* An analysis of a file with a cached result and displayed diagnostics
\* failed.
C3_Witness ==
    /\ last.op = "resolve"
    /\ last.ret = Null
    /\ IsSome(last.prev)
    /\ GetResult(cache, last.file) = last.prev
    /\ diagnostics[last.file] # <<>>

\* ---------------------------------------------------------------------- C4
\* C4 in the index specification, where no provider is called between the
\* steps: when result R2 of file F replaces the cached R1, then for every name
\* findSymbolsByName returns what the files before F gave, then R2's symbols
\* of that name, then what the files after F gave, where before the step it
\* returned the same with R1's symbols in the middle: nothing of R1 that R2
\* lacks remains, and the other files' symbols keep content and order. The
\* same holds of findMembers, and findDefinition returns a symbol of those
\* lists; getSymbols, findSymbolAt and findVariableType
\* of F answer from R2 alone, and the cached result and per-file index of
\* every other file, which is all their lookups read, are unchanged.
C4_ReplacementIsWholesale ==
    [][\A f \in Files :
         (/\ last'.op = "resolve" /\ last'.file = f /\ inflight' # inflight
          /\ IsSome(last'.ret)
          /\ MapHas(cache, f))
         => LET r1 == Val(GetResult(cache, f))
                r2 == Val(last'.ret)
                pre == Before(cache, f)
                post == After(cache, f)
                only2 == <<<<f, r2>>>>
            IN  /\ \A n \in LookupNames :
                     /\ FindSymbolsByName(globalSymbols, n) =
                            NamedIn(pre, n) \o NamedIn(<<<<f, r1>>>>, n)
                                \o NamedIn(post, n)
                     /\ FindSymbolsByName(globalSymbols', n) =
                            NamedIn(pre, n) \o NamedIn(only2, n)
                                \o NamedIn(post, n)
                /\ \A n \in LookupNames :
                     LET d == FindDefinition(globalSymbols', n)
                     IN  IsSome(d) =>
                             Val(d) \in Range(NamedIn(pre, n))
                                 \cup Range(r2.symbols)
                                 \cup Range(NamedIn(post, n))
                /\ \A t \in LookupOwners :
                     FindMembers(cache', t) =
                         FindMembers(pre, t) \o FindMembers(only2, t)
                             \o FindMembers(post, t)
                /\ GetSymbols(cache', f) = r2.symbols
                /\ \A line \in LookupLines, col \in LookupCols :
                     FindSymbolAt(cache', f, line, col) =
                         FindSymbolAt(only2, f, line, col)
                /\ \A v \in {nX, nP} :
                     FindVariableType(cache', f, v) =
                         FindVariableType(only2, f, v)
                /\ \A g \in Files \ {f} :
                     /\ GetResult(cache', g) = GetResult(cache, g)
                     /\ MapGet(nameIndex', g) = MapGet(nameIndex, g)
                     /\ GetSymbols(cache', g) = GetSymbols(cache, g)]_vars

\* A result of a.mut without the dotted field replaced one that had it,
\* while b.mut, cached after it, has symbols found under the same name.
C4_Witness ==
    /\ last.op = "resolve"
    /\ last.file = "a.mut"
    /\ IsSome(last.ret)
    /\ IsSome(last.prev)
    /\ \E i \in DOMAIN Val(last.prev).symbols :
          /\ Val(last.prev).symbols[i].name = nPx
          /\ Val(last.prev).symbols[i] \notin Range(Val(last.ret).symbols)
    /\ MapKeys(cache) = <<"a.mut", "b.mut">>
    /\ Len(NamedIn(After(cache, "a.mut"), nX)) = 2
    /\ Len(FindSymbolsByName(globalSymbols, nX)) = 3

\* ---------------------------------------------------------------------- C5
\* C5 in the index specification, where no provider is called between the
\* steps: right after file F is closed, findSymbolsByName and findMembers
\* return, for every name, what they returned before without the symbols
\* F's cached result gave: those of the files before F, then those of the
\* files after F, in the same order; F has no cached result and no index.
C5_CloseRemovesOnlyTheFile ==
    [][\A f \in Files :
         (last'.op = "close" /\ last'.file = f /\ openDocs' # openDocs)
         => /\ ~MapHas(cache', f)
            /\ ~MapHas(nameIndex', f)
            /\ IF MapHas(cache, f)
               THEN LET r1 == Val(GetResult(cache, f))
                        pre == Before(cache, f)
                        post == After(cache, f)
                    IN  /\ cache' = pre \o post
                        /\ \A n \in LookupNames :
                             /\ FindSymbolsByName(globalSymbols, n) =
                                    NamedIn(pre, n) \o NamedIn(<<<<f, r1>>>>, n)
                                        \o NamedIn(post, n)
                             /\ FindSymbolsByName(globalSymbols', n) =
                                    NamedIn(pre, n) \o NamedIn(post, n)
                        /\ \A t \in LookupOwners :
                             FindMembers(cache', t) =
                                 FindMembers(pre, t) \o FindMembers(post, t)
               ELSE /\ cache' = cache
                    /\ \A n \in LookupNames :
                         FindSymbolsByName(globalSymbols', n) =
                             FindSymbolsByName(globalSymbols, n)]_vars

\* a.mut, whose cached result had symbols found under x, was closed while
\* b.mut has symbols found under x too: those are still returned.
C5_Witness ==
    /\ last.op = "close"
    /\ last.file = "a.mut"
    /\ IsSome(last.prev)
    /\ Len(NamedIn(<<<<"a.mut", Val(last.prev)>>>>, nX)) = 2
    /\ MapKeys(cache) = <<"b.mut">>
    /\ Len(FindSymbolsByName(globalSymbols, nX)) = 2
    /\ FindMembers(cache, "P") # <<>>

\* ---------------------------------------------------------------------- C6
\* C6: a closed file stays removed: as long as no request for F was issued
\* since F was closed, F has no cached result and no per-file index (so it
\* gives the global index nothing) and no diagnostics are displayed for it,
\* also when an analysis of F was pending at the close and resolves later.
C6_ClosedFileStaysRemoved ==
    \A f \in quietClosed :
        /\ ~MapHas(cache, f)
        /\ ~MapHas(nameIndex, f)
        /\ diagnostics[f] = <<>>

\* ---------------------------------------------------------------------- C7
\* C7: debounced requests for F start nothing themselves; the one timer that
\* survives them fires only once its delay has elapsed, and its firing
\* starts exactly one analyzer invocation for F.
C7_DebounceStartsOneAnalysis ==
    [][/\ (last'.op = "debounce" => inflight' = inflight)
       /\ \A t \in timers :
            (last'.op = "fire" /\ last'.file = t.file /\ t \notin timers')
            => /\ t.remaining = 0
               /\ inflight' = Append(inflight,
                                     [file |-> t.file, stale |-> FALSE])]_vars

\* ---------------------------------------------------------------------- C8
\* C8: in every reachable state each file has at most one live debounce
\* timer, the one debounceTimers holds for it; a debounced request for F
\* leaves every other file's timer, its remaining delay and its entry as
\* they were and leaves F exactly one timer, a new one; when a timer fires
\* its file's entry is gone before analyzeFile runs.
C8_DebounceIsPerFile ==
    /\ [](\A f \in Files :
            /\ Cardinality({ t \in timers : t.file = f }) <= 1
            /\ \A t \in timers :
                 t.file = f => debounceTimers[f] = Some(t.id)
            /\ IsSome(debounceTimers[f])
                 => \E t \in timers :
                       t.file = f /\ t.id = Val(debounceTimers[f]))
    /\ [][\A f \in Files :
            /\ (last'.op = "debounce" /\ last'.file = f)
               => /\ \A t \in timers : t.file # f => t \in timers'
                  /\ \A t \in timers' : t.file # f => t \in timers
                  /\ \A g \in Files \ {f} :
                       debounceTimers'[g] = debounceTimers[g]
                  /\ \E t \in timers' :
                       /\ t.file = f
                       /\ t.remaining \in 1..MaxDelay
                       /\ debounceTimers'[f] = Some(t.id)
                       /\ \A u \in timers' : u.file = f => u = t
            /\ (last'.op = "fire" /\ last'.file = f /\ timers' # timers)
               => /\ debounceTimers'[f] = Null
                  /\ \A t \in timers' : t.file # f
                  /\ \A g \in Files \ {f} :
                       debounceTimers'[g] = debounceTimers[g]]_vars

\* A debounced request for a.mut restarted its timer while the timer of
\* b.mut, already partly elapsed, stayed pending.
C8_Witness ==
    /\ last.op = "debounce"
    /\ last.file = "a.mut"
    /\ \E t \in timers : t.file = "a.mut" /\ t.remaining = MaxDelay
    /\ \E t \in timers : t.file = "b.mut" /\ t.remaining = 1
    /\ Cardinality(timers) = 2

\* ---------------------------------------------------------------------- C9
\* C9: no result is applied to a file's cache, index and diagnostics after
\* the result of an invocation of the same file that started later: the
\* invocation whose result is applied is never older than an applied one.
C9_NoOlderResultOverwrites ==
    (last.op = "resolve" /\ IsSome(last.ret)) => ~last.stale

\* The result of a second analysis of a.mut replaced that of its first one
\* while an analysis of b.mut, started in between, was still pending.
C9_Witness ==
    /\ last.op = "resolve"
    /\ last.file = "a.mut"
    /\ IsSome(last.ret)
    /\ IsSome(last.prev)
    /\ last.ret # last.prev
    /\ PendingFor("b.mut") # {}

\* --------------------------------------------------------------------- C10
\* C10: ingest is idempotent: whenever a result R of file F has been
\* applied, applying R for F once more gives the same cached results, the
\* same per-file indices and the same global index, lists in the same order.
C10_IngestIsIdempotent ==
    [][\A f \in Files :
         (/\ last'.op = "resolve" /\ last'.file = f /\ inflight' # inflight
          /\ IsSome(last'.ret))
         => LET r == Val(last'.ret)
                cache2 == CacheAfter(cache', f, Some(r))
                index2 == BuildIndex(nameIndex', f, r)
                global2 == RebuildGlobalIndex(globalSymbols', index2)
            IN  /\ cache2 = cache'
                /\ index2 = nameIndex'
                /\ global2 = globalSymbols'
                /\ PublishDiagnostics(diagnostics', r) = diagnostics']_vars

\* The result a.mut already had, with a plain and a dotted symbol, was
\* applied to it again while b.mut was cached before it.
C10_Witness ==
    /\ last.op = "resolve"
    /\ last.file = "a.mut"
    /\ IsSome(last.ret)
    /\ last.ret = last.prev
    /\ Len(Val(last.ret).symbols) = 2
    /\ \E i \in 1..2 : Val(last.ret).symbols[i].name = nPx
    /\ MapKeys(cache) = <<"b.mut", "a.mut">>
    /\ Len(FindSymbolsByName(globalSymbols, nX)) >= 3


\* =============================================== hover.ts and definition.ts

\* The characters of a type name of the model, for a template string that
\* puts it in front of a word (every type name of the model but int is one
\* character long).
Chars(s) ==
    IF s = "" THEN <<>>
    ELSE IF s = "int" THEN <<"i", "n", "t">>
    ELSE <<s>>

\* `${owner}.${word}` for an owner and a word given by their characters.
Qualified(owner, word) == owner \o <<".">> \o word

\* pickBestSymbol's priority table: priority[kind] ?? 99.
Priority(kind) ==
    CASE kind = "function" -> 1
      [] kind = "class" -> 2
      [] kind = "struct" -> 3
      [] kind = "interface" -> 4
      [] kind = "enum" -> 5
      [] kind = "method" -> 6
      [] kind = "field" -> 7
      [] kind = "constant" -> 8
      [] kind = "variable" -> 9
      [] kind = "method_sig" -> 10
      [] kind = "enum_variant" -> 11
      [] kind = "parameter" -> 12
      [] OTHER -> 99

\* The values the comparator of pickBestSymbol orders by, ascending.
PriorityValues == <<1, 2, 3, 4, 5, 6, 7, 8, 9, 10, 11, 12, 99>>

\* symbols.sort((a, b) => priority(a) - priority(b)): Array.prototype.sort
\* is stable, so the sorted array is, for each priority in ascending order,
\* the symbols of that priority in their former order.
RECURSIVE SortByPriority(_, _)
SortByPriority(symbols, values) ==
    IF values = <<>> THEN <<>>
    ELSE LET Ranked(sym) == Priority(sym.kind) = Head(values)
         IN  SelectSeq(symbols, Ranked)
                 \o SortByPriority(symbols, Tail(values))

\* A pickBestSymbol that takes the first symbol without sorting.
PickBestSymbolFirst(symbols) ==
    IF symbols = <<>> THEN Null ELSE Some(Head(symbols))

\* pickBestSymbol's return value: symbols[0] ?? null after the sort.
PickBestSymbol(symbols) ==
    LET sorted == SortByPriority(symbols, PriorityValues)
    IN  IF sorted = <<>> THEN Null ELSE Some(Head(sorted))

\* A hover lookup that skips the qualified attempts.
HoverNameUnqualified(c, global, filePath, dot, word) == word

\* provideHover, lines 30-50: the name whose list `symbols` ends up being,
\* for the word under the cursor and the identifier before a preceding dot
\* (dot is null when the word is not preceded by `identifier.`).
HoverName(c, global, filePath, dot, word) ==
    LET parentType == IF IsSome(dot)
                      THEN FindVariableType(c, filePath, Val(dot))
                      ELSE Null
        byType == IF IsSome(parentType)
                  THEN FindSymbolsByName(global,
                           Qualified(Chars(Val(parentType)), word))
                  ELSE <<>>
        byParent == IF IsSome(dot)
                    THEN FindSymbolsByName(global, Qualified(Val(dot), word))
                    ELSE <<>>
    IN  IF byType # <<>> THEN Qualified(Chars(Val(parentType)), word)
        ELSE IF byParent # <<>> THEN Qualified(Val(dot), word)
        ELSE word

\* provideHover, lines 30-60: the symbol the hover is built from, null when
\* provideHover returns null.
HoverSym(c, global, filePath, dot, word) ==
    PickBestSymbol(FindSymbolsByName(global,
                       HoverName(c, global, filePath, dot, word)))

\* The global index after provideHover: pickBestSymbol sorts the array that
\* findSymbolsByName returned, which is the array the index holds.
GlobalAfterHover(c, global, filePath, dot, word) ==
    LET name == HoverName(c, global, filePath, dot, word)
    IN  IF MapHas(global, name)
        THEN MapSet(global, name,
                    SortByPriority(Val(MapGet(global, name)), PriorityValues))
        ELSE global

\* provideDefinition, lines 189-206: the value of sym after the lookups.
DefinitionSym(c, global, filePath, dot, word) ==
    LET parentType == IF IsSome(dot)
                      THEN FindVariableType(c, filePath, Val(dot))
                      ELSE Null
        byType == IF IsSome(parentType)
                  THEN FindDefinition(global,
                           Qualified(Chars(Val(parentType)), word))
                  ELSE Null
        byParent == IF IsSome(dot) /\ ~IsSome(byType)
                    THEN FindDefinition(global, Qualified(Val(dot), word))
                    ELSE byType
    IN  IF IsSome(byParent) THEN byParent ELSE FindDefinition(global, word)

\* provideDefinition without the test of the line.
ProvideDefinitionUnlocated(c, global, filePath, dot, word) ==
    LET sym == DefinitionSym(c, global, filePath, dot, word)
    IN  IF ~IsSome(sym) \/ Val(sym).file = ""
        THEN Null
        ELSE Some([uri |-> Val(sym).file, line |-> Val(sym).line - 1,
                   character |-> Max(0, Val(sym).col - 1)])

\* provideDefinition's return value: the Location of sym, null when there
\* is no symbol or it has no file or no positive line.
ProvideDefinition(c, global, filePath, dot, word) ==
    LET sym == DefinitionSym(c, global, filePath, dot, word)
    IN  IF ~IsSome(sym) \/ Val(sym).file = "" \/ Val(sym).line <= 0
        THEN Null
        ELSE Some([uri |-> Val(sym).file, line |-> Val(sym).line - 1,
                   character |-> Max(0, Val(sym).col - 1)])

\* A record of a provider call: the handler record with the call's word,
\* the identifier before its dot, and the symbol the provider settled on.
Asked(op, file, dot, word, sym, ret) ==
    [op |-> op, file |-> file, started |-> FALSE, ret |-> ret, prev |-> Null,
     stale |-> FALSE, dot |-> dot, word |-> word, sym |-> sym]

\* provideHover on an open document.
Hover(f, dot, word) ==
    /\ ~disposed
    /\ f \in openDocs
    /\ globalSymbols' = GlobalAfterHover(cache, globalSymbols, f, dot, word)
    /\ last' = Asked("hover", f, dot, word,
                     HoverSym(cache, globalSymbols, f, dot, word),
                     HoverSym(cache, globalSymbols, f, dot, word))
    /\ UNCHANGED <<cache, nameIndex, diagnostics, timerVars, analyzing,
                   inflight, openDocs, disposed, quietClosed>>

\* provideDefinition on an open document.
GoToDefinition(f, dot, word) ==
    /\ ~disposed
    /\ f \in openDocs
    /\ last' = Asked("definition", f, dot, word,
                     DefinitionSym(cache, globalSymbols, f, dot, word),
                     ProvideDefinition(cache, globalSymbols, f, dot, word))
    /\ UNCHANGED <<cacheVars, timerVars, analyzing, inflight, openDocs,
                   disposed, quietClosed>>


\* Analyzer results of the resolution specification: lists in which one
\* name has candidates of several kinds, in an order that differs from the
\* priority order or that has a kind without priority, one with a variable
\* of type P and the field P.x, and one with a variable named P.
ResolveResults(f) ==
    { Result(f, <<Sym(nX, "parameter", f, 1, 1, "int", ""),
                  Sym(nX, "variable", f, 2, 1, "P", "")>>, <<>>),
      Result(f, <<Sym(nX, "variable", f, 2, 1, "P", ""),
                  Sym(nPx, "field", f, 3, 3, "int", "P")>>, <<>>),
      Result(f, <<Sym(nX, "variable", f, 2, 1, "P", ""),
                  Sym(nX, "function", f, 4, 1, "()", "")>>, <<>>),
      Result(f, <<Sym(nX, "module", f, 0, 0, "", ""),
                  Sym(nX, "parameter", f, 1, 1, "", ""),
                  Sym(nX, "enum_variant", f, 5, 1, "", "")>>, <<>>),
      Result(f, <<Sym(nP, "variable", f, 6, 1, "Q", ""),
                  Sym(nPx, "field", f, 3, 3, "int", "P")>>, <<>>) }

\* The identifier before the dot of a provider call, and the word.
ResolveParents == {nX, nP}
ResolveWords == {nX, <<"y">>}
ResolveDots == {Null} \cup { Some(p) : p \in ResolveParents }

\* The resolution specification: documents are opened, saved, analyzed and
\* closed, and hover and go-to-definition are asked about them.
NextResolve ==
    \/ \E f \in Files : OpenDoc(f)
    \/ \E f \in Files : SaveDoc(f, TRUE)
    \/ \E f \in Files : CloseDoc(f)
    \/ \E i \in DOMAIN inflight :
          \E o \in Outcomes(ResolveResults(inflight[i].file)) :
              AnalyzerResolve(i, o)
    \/ \E f \in Files, dot \in ResolveDots, word \in ResolveWords :
          Hover(f, dot, word)
    \/ \E f \in Files, dot \in ResolveDots, word \in ResolveWords :
          GoToDefinition(f, dot, word)

SpecResolve == Init /\ [][NextResolve]_vars


\* Names looked up in the resolution specification: the names and simple
\* names of its results, the qualified names its provider calls build, and
\* a name no result has.
ResolveNames ==
    {nX, nPx, <<"y">>} \cup { Qualified(p, w) : p \in ResolveParents,
                                                w \in ResolveWords }

\* The kinds findDefinition is said to prefer.
DefinitionKinds == {"function", "class", "struct", "interface", "enum",
                    "method", "field", "variable", "constant"}

\* The first symbol of candidates with a definition kind, else the first
\* symbol, null for an empty list.
FirstDefinitionOf(candidates) ==
    LET defs == { i \in DOMAIN candidates :
                      candidates[i].kind \in DefinitionKinds }
    IN  IF candidates = <<>> THEN Null
        ELSE IF defs = {} THEN Some(candidates[1])
        ELSE Some(candidates[CHOOSE i \in defs : \A j \in defs : i <= j])

\* --------------------------------------------------------------------- C11
\* C11: findDefinition(name) returns null when the name has no match;
\* otherwise the first candidate, in index discovery order (cached files in
\* Map order, each result in its order), whose kind is one of function,
\* class, struct, interface, enum, method, field, variable, constant, and
\* the first candidate when none has such a kind.
C11_DefinitionInDiscoveryOrder ==
    \A n \in ResolveNames :
        FindDefinition(globalSymbols, n) = FirstDefinitionOf(NamedIn(cache, n))


\* The provider calls.
ProviderOps == {"hover", "definition"}

\* The name a dotted or plain provider call is to resolve, as stated: the
\* type-qualified name when the identifier before the dot has a type and
\* that name has a match, else the identifier-qualified name when it has a
\* match, else the word.
NameToResolve(c, global, filePath, dot, word) ==
    LET Match(n) == FindSymbolsByName(global, n) # <<>>
        T == FindVariableType(c, filePath, Val(dot))
    IN  IF ~IsSome(dot) THEN word
        ELSE IF IsSome(T) /\ Match(Qualified(Chars(Val(T)), word))
             THEN Qualified(Chars(Val(T)), word)
        ELSE IF Match(Qualified(Val(dot), word)) THEN Qualified(Val(dot), word)
        ELSE word

\* --------------------------------------------------------------------- C12
\* C12: hover and go-to-definition on a word w preceded by `r.` settle on a
\* symbol found under T.w when findVariableType(currentFile, r) yields T
\* and T.w has a match, otherwise on one found under r.w when r.w has a
\* match, otherwise on one found under w; with no match at all they settle
\* on nothing and return null; a location returned by go-to-definition is
\* that of the symbol settled on.
C12_DottedResolution ==
    [][\A f \in Files, r \in ResolveParents, w \in ResolveWords :
         (/\ last'.op \in ProviderOps
          /\ last'.file = f /\ last'.dot = Some(r) /\ last'.word = w)
         => LET name == NameToResolve(cache, globalSymbols, f, Some(r), w)
                found == FindSymbolsByName(globalSymbols, name)
            IN  IF found = <<>>
                THEN last'.sym = Null /\ last'.ret = Null
                ELSE /\ IsSome(last'.sym)
                     /\ Val(last'.sym) \in Range(found)
                     /\ last'.op = "hover" => last'.ret = last'.sym
                     /\ (last'.op = "definition" /\ IsSome(last'.ret))
                        => /\ Val(last'.ret).uri = Val(last'.sym).file
                           /\ Val(last'.ret).line = Val(last'.sym).line - 1]_vars

\* Hover on x.x in b.mut, where x is a variable of type P and P.x a field,
\* settled on the field while a function x of a.mut, which the unqualified
\* lookup would have preferred, is indexed too.
C12_Witness ==
    /\ last.op = "hover"
    /\ last.file = "b.mut"
    /\ last.dot = Some(nX)
    /\ last.word = nX
    /\ IsSome(last.sym)
    /\ Val(last.sym).name = nPx
    /\ Val(last.sym).kind = "field"
    /\ FindVariableType(cache, "b.mut", nX) = Some("P")
    /\ \E s \in Range(FindSymbolsByName(globalSymbols, nX)) :
           s.kind = "function"


\* --------------------------------------------------------------------- C13
\* C13: on every hover and go-to-definition call the symbol settled on has
\* the lowest rank, among the candidates of the resolved name, in the order
\* function, class, struct, interface, enum, method, field, constant,
\* variable, method_sig, enum_variant, parameter, unknown kinds last; and
\* go-to-definition settles on the symbol that hover at the same position
\* settles on.
C13_LowestRankChosen ==
    [][\A f \in Files, dot \in ResolveDots, w \in ResolveWords :
         (/\ last'.op \in ProviderOps
          /\ last'.file = f /\ last'.dot = dot /\ last'.word = w
          /\ IsSome(last'.sym))
         => LET name == NameToResolve(cache, globalSymbols, f, dot, w)
                found == FindSymbolsByName(globalSymbols, name)
            IN  /\ \A s \in Range(found) :
                       Priority(Val(last'.sym).kind) <= Priority(s.kind)
                /\ last'.sym = HoverSym(cache, globalSymbols, f, dot, w)]_vars


\* ============================================================= diagnostics

\* The file of the workspace that is not f.
OtherFile(f) == CHOOSE g \in Files : g # f

\* Diagnostics an analysis of f may report: an error on f itself, a warning
\* with no file of its own, and a note on the other file.
dOwn(f) == Diag("error", f, 10, 1, 5, "undefined symbol")
dNoFile(f) == Diag("warning", "", 5, 3, 4, "unused variable")
dOther(f) == Diag("note", OtherFile(f), 2, 1, 1, "declared here")

\* Analyzer results of the diagnostics specification.
DiagResults(f) ==
    { Result(f, <<>>, ds) :
        ds \in { <<>>, <<dOwn(f)>>, <<dOwn(f), dNoFile(f)>>,
                 <<dNoFile(f), dOther(f)>>, <<dOther(f), dOwn(f)>> } }

\* The diagnostics specification: documents are opened, saved and closed
\* and their analyses report diagnostics, some of them on the other file.
NextDiag ==
    \/ \E f \in Files : OpenDoc(f)
    \/ \E f \in Files : SaveDoc(f, TRUE)
    \/ \E f \in Files : CloseDoc(f)
    \/ \E i \in DOMAIN inflight :
          \E o \in Outcomes(DiagResults(inflight[i].file)) :
              AnalyzerResolve(i, o)
    \/ ClearAll

SpecDiag == Init /\ [][NextDiag]_vars

\* The annotation a diagnostic is to be displayed as, as stated: zero-based
\* start clamped at zero, on one line, at least one character long, with
\* the severity error, warning or (for anything else) information.
Displayed(d) ==
    LET line == IF d.line > 1 THEN d.line - 1 ELSE 0
        col == IF d.col > 1 THEN d.col - 1 ELSE 0
        length == IF d.span > 1 THEN d.span ELSE 1
    IN  [startLine |-> line, startCol |-> col, endLine |-> line,
         endCol |-> col + length, message |-> d.message,
         severity |-> CASE d.severity = "error" -> "Error"
                        [] d.severity = "warning" -> "Warning"
                        [] OTHER -> "Information"]

\* The diagnostics of result r that are for file f: those whose file field
\* is f or empty when f is the analyzed file, those whose file field is f
\* otherwise.
DiagnosticsFor(r, f) ==
    LET Mine(d) == d.file = f \/ (d.file = "" /\ r.file = f)
    IN  SelectSeq(r.diagnostics, Mine)

\* --------------------------------------------------------------------- C14
\* C14: when an analysis of file F completes with result R, the diagnostics
\* displayed for F are then exactly the conversions, in order, of R's
\* diagnostics whose file field is F or empty, with the matching severity;
\* the single diagnostic {error, line 10, col 1, span 5} leaves exactly one
\* error annotation at (9,0)-(9,5) on F.
C14_OwnDiagnosticsDisplayed ==
    [][\A f \in Files :
         (/\ last'.op = "resolve" /\ last'.file = f /\ inflight' # inflight
          /\ IsSome(last'.ret))
         => LET R == Val(last'.ret)
                own == DiagnosticsFor(R, f)
            IN  /\ diagnostics'[f] = [i \in DOMAIN own |-> Displayed(own[i])]
                /\ R.diagnostics = <<dOwn(f)>>
                   => diagnostics'[f] =
                        <<[startLine |-> 9, startCol |-> 0, endLine |-> 9,
                           endCol |-> 5, message |-> "undefined symbol",
                           severity |-> "Error"]>>]_vars

\* An analysis of a.mut that reports no diagnostic for a.mut completed when
\* a.mut had diagnostics displayed: none is displayed for it any more.
C14_Witness ==
    /\ last.op = "resolve"
    /\ last.file = "a.mut"
    /\ IsSome(last.ret)
    /\ IsSome(last.prev)
    /\ DiagnosticsFor(Val(last.prev), "a.mut") # <<>>
    /\ DiagnosticsFor(Val(last.ret), "a.mut") = <<>>
    /\ diagnostics["a.mut"] = <<>>


\* --------------------------------------------------------------------- C15
\* C15: when result R2 of an analysis of F is published after R1, every
\* diagnostic that R1's publication caused to be displayed, on F or on the
\* file its own file field names, and that is not in R2 is displayed no
\* longer.
C15_ReplacedDiagnosticsGone ==
    [][\A f \in Files :
         (/\ last'.op = "resolve" /\ last'.file = f /\ inflight' # inflight
          /\ IsSome(last'.ret) /\ IsSome(last'.prev))
         => LET R1 == Val(last'.prev)
                R2 == Val(last'.ret)
            IN  \A u \in Files :
                  \A d \in Range(DiagnosticsFor(R1, u)) :
                      (/\ d \notin Range(R2.diagnostics)
                       /\ Displayed(d) \in Range(diagnostics[u]))
                      => Displayed(d) \notin Range(diagnostics'[u])]_vars

\* --------------------------------------------------------------------- C16
\* C16: publishing the result of an analysis of F leaves the diagnostics
\* that the latest analysis of another file G published for G displayed as
\* they are.
C16_OtherFilesDiagnosticsKept ==
    [][\A f \in Files :
         (last'.op = "resolve" /\ last'.file = f /\ inflight' # inflight)
         => \A g \in Files \ {f} :
              LET own == IF MapHas(cache, g)
                         THEN DiagnosticsFor(Val(GetResult(cache, g)), g)
                         ELSE <<>>
              IN  (/\ own # <<>>
                   /\ diagnostics[g] = [i \in DOMAIN own |-> Displayed(own[i])])
                  => diagnostics'[g] = diagnostics[g]]_vars


\* Analyzer results of the conversion specification: one diagnostic with
\* every line, column and span from -1 to MaxCoord.
ConvertResults(f) ==
    { Result(f, <<>>, <<Diag("error", "", l, c, s, "m")>>) :
        l \in -1..MaxCoord, c \in -1..MaxCoord, s \in -1..MaxCoord }

\* The conversion specification: one document is opened, saved and closed
\* and its analyses report one diagnostic.
NextConvert ==
    \/ OpenDoc("a.mut")
    \/ SaveDoc("a.mut", TRUE)
    \/ CloseDoc("a.mut")
    \/ \E i \in DOMAIN inflight :
          \E o \in Outcomes(ConvertResults(inflight[i].file)) :
              AnalyzerResolve(i, o)

SpecConvert == Init /\ [][NextConvert]_vars

\* --------------------------------------------------------------------- C17
\* C17: a diagnostic with integer line, col and span is displayed with a
\* range that starts at (max(0, line-1), max(0, col-1)), stays on that line
\* and ends max(1, span) characters after its start: the start is never
\* negative, the range never empty, and {line 5, col 3, span 4} becomes
\* line 4, column 2, length 4.
C17_ConversionClamps ==
    [][(last'.op = "resolve" /\ inflight' # inflight /\ IsSome(last'.ret))
       => LET d == Val(last'.ret).diagnostics[1]
              v == diagnostics'[last'.file][1]
          IN  /\ Len(diagnostics'[last'.file]) = 1
              /\ v.startLine = (IF d.line - 1 > 0 THEN d.line - 1 ELSE 0)
              /\ v.startCol = (IF d.col - 1 > 0 THEN d.col - 1 ELSE 0)
              /\ v.endLine = v.startLine
              /\ v.endCol - v.startCol = (IF d.span > 1 THEN d.span ELSE 1)
              /\ v.startLine >= 0 /\ v.startCol >= 0
              /\ v.endCol > v.startCol
              /\ (d.line = 5 /\ d.col = 3 /\ d.span = 4)
                 => (v.startLine = 4 /\ v.startCol = 2 /\ v.endCol = 6)]_vars

\* A diagnostic at line 0, column -1 with span 0 is displayed at (0,0) with
\* length 1.
C17_Witness ==
    /\ last.op = "resolve"
    /\ IsSome(last.ret)
    /\ Val(last.ret).diagnostics[1].line = 0
    /\ Val(last.ret).diagnostics[1].col = -1
    /\ Val(last.ret).diagnostics[1].span = 0
    /\ Len(diagnostics[last.file]) = 1
    /\ diagnostics[last.file][1].startLine = 0
    /\ diagnostics[last.file][1].startCol = 0
    /\ diagnostics[last.file][1].endCol = 1


\* ============================================================== analyzer.ts
\* In the analyzer specification each element of inflight is an analyze()
\* call with its child process, its promise and the lines it logged, and
\* timers holds the 30-second timers of the calls.

\* One chunk of the child's output: white space or one of the two halves
\* of the JSON document the analyzer prints.
StdoutTokens == {" ", "{", "}"}

\* stdout.trim() is empty: the text has nothing but white space.
TrimIsEmpty(text) == \A i \in DOMAIN text : text[i] = " "

\* JSON.parse(stdout) for the analysis of filePath: the document when the
\* text is its two halves in order with white space anywhere around them,
\* null (as for a SyntaxError thrown) for any other text.
JsonParse(text, filePath) ==
    LET Inked(tok) == tok # " "
    IN  IF SelectSeq(text, Inked) = <<"{", "}">>
        THEN Some(Result(filePath, <<>>, <<>>))
        ELSE Null

\* A resolve that settles the promise again.
ResolveAgain(call, value) == [call EXCEPT !.settled = Some(value)]

\* resolve(value) of the promise of a call: it settles a pending promise
\* and does nothing to a settled one.
Resolve(call, value) ==
    IF IsSome(call.settled) THEN call
    ELSE [call EXCEPT !.settled = Some(value)]

\* outputChannel.appendLine for a call.
Logged(call, line) == [call EXCEPT !.log = Append(call.log, line)]

\* The state of a call when the executor of lines 78-133 returns: with no
\* pid the failure is logged and the promise resolved with null, before any
\* listener is attached and any timer set.
NewCall(filePath, spawned) ==
    LET call == [file |-> filePath, stale |-> FALSE, pid |-> spawned,
                 listening |-> spawned, stdout |-> <<>>, stderr |-> <<>>,
                 closed |-> FALSE, errored |-> FALSE, killed |-> FALSE,
                 unhandled |-> FALSE, settled |-> Null, log |-> <<>>]
    IN  IF spawned THEN call
        ELSE Resolve(Logged(call, "Failed to start"), Null)

\* A call is over: its promise is settled, its timer gone, and its child
\* closed or, if it was never spawned, its error event emitted.
Finished(call) ==
    /\ IsSome(call.settled)
    /\ \A t \in timers : t.file # call.file
    /\ IF call.pid THEN call.closed ELSE call.errored

\* analyze(filePath), lines 66-134, up to the return of the promise; cp.spawn
\* gave the child a pid or not. The specification follows one call at a
\* time: a finished call is forgotten when the next is made.
Analyze(filePath, spawned) ==
    /\ \A i \in DOMAIN inflight : Finished(inflight[i])
    /\ inflight' = <<NewCall(filePath, spawned)>>
    /\ timers' = IF spawned
                 THEN {[id |-> 1, file |-> filePath, remaining |-> MaxWait]}
                 ELSE {}
    /\ last' = Ran("analyze", filePath, spawned, Null, Null, FALSE)
    /\ UNCHANGED <<cacheVars, debounceTimers, analyzing, openDocs, disposed,
                   quietClosed>>

\* What an event of call i leaves unchanged.
CallFrame(i, op) ==
    /\ last' = Ran(op, inflight[i].file, FALSE, Null, Null, FALSE)
    /\ UNCHANGED <<cacheVars, debounceTimers, analyzing, openDocs, disposed,
                   quietClosed>>

\* proc.stdout 'data', lines 94-96.
StdoutData(i, chunk) ==
    /\ inflight[i].pid /\ ~inflight[i].closed
    /\ Len(inflight[i].stdout) < MaxChunks
    /\ inflight' = [inflight EXCEPT ![i].stdout = Append(@, chunk)]
    /\ CallFrame(i, "stdout")
    /\ UNCHANGED timers

\* proc.stderr 'data', lines 98-100.
StderrData(i) ==
    /\ inflight[i].pid /\ ~inflight[i].closed
    /\ inflight[i].stderr = <<>>
    /\ inflight' = [inflight EXCEPT ![i].stderr = Append(@, "warning")]
    /\ CallFrame(i, "stderr")
    /\ UNCHANGED timers

\* The 'close' listener, lines 107-126.
OnClose(call) ==
    LET noted == IF call.stderr # <<>> THEN Logged(call, "stderr") ELSE call
        parsed == JsonParse(call.stdout, call.file)
    IN  IF TrimIsEmpty(call.stdout) THEN Resolve(noted, Null)
        ELSE IF IsSome(parsed) THEN Resolve(noted, parsed)
        ELSE Resolve(Logged(noted, "Failed to parse JSON"), Null)

\* The child's 'close' event: the process has ended and its streams are
\* closed.
ProcClose(i) ==
    /\ inflight[i].pid /\ ~inflight[i].closed
    /\ inflight' = [inflight EXCEPT ![i] = [OnClose(@) EXCEPT !.closed = TRUE]]
    /\ CallFrame(i, "close")
    /\ UNCHANGED timers

\* The child's 'error' event: emitted once for a child that could not be
\* spawned, and possibly for one that could not be killed. The listener of
\* lines 102-105 logs and resolves with null; an 'error' event emitted with
\* no listener attached is thrown by the emitter as an uncaught exception.
ProcError(i) ==
    /\ ~inflight[i].errored /\ ~inflight[i].closed
    /\ inflight[i].pid => inflight[i].killed
    /\ inflight' = [inflight EXCEPT ![i] =
           IF @.listening
           THEN [Resolve(Logged(@, "Process error"), Null)
                    EXCEPT !.errored = TRUE]
           ELSE [@ EXCEPT !.errored = TRUE, !.unhandled = TRUE]]
    /\ CallFrame(i, "error")
    /\ UNCHANGED timers

\* The timer callback of lines 129-132, 30 seconds after the call.
OnTimeout(t) ==
    /\ t.remaining = 0
    /\ timers' = timers \ {t}
    /\ inflight' = [inflight EXCEPT ![t.id] =
                       Resolve([@ EXCEPT !.killed = TRUE], Null)]
    /\ CallFrame(t.id, "timeout")

\* The analyzer specification: calls of analyze, the events of their child
\* processes, and time. The runtime's clock advances and a due timer fires.
NextAnalyzer ==
    \/ \E f \in Files, spawned \in BOOLEAN : Analyze(f, spawned)
    \/ \E i \in DOMAIN inflight, chunk \in StdoutTokens : StdoutData(i, chunk)
    \/ \E i \in DOMAIN inflight : StderrData(i)
    \/ \E i \in DOMAIN inflight : ProcClose(i)
    \/ \E i \in DOMAIN inflight : ProcError(i)
    \/ \E t \in timers : OnTimeout(t)
    \/ Tick

SpecAnalyzer ==
    /\ Init
    /\ [][NextAnalyzer]_vars
    /\ WF_vars(Tick)
    /\ WF_vars(\E t \in timers : OnTimeout(t))


\* --------------------------------------------------------------------- C18
\* C18: every analyze call completes, also when its child never exits, and
\* its outcome is delivered once: the outcome is null or the parsed
\* document; when the 30-second timer fires on a pending call the child is
\* killed and the outcome is null; and no later event (the child closing
\* after the timeout, the timer firing after the close) changes an outcome
\* already delivered.
C18_CompletesOnce ==
    /\ [](\A i \in DOMAIN inflight :
            LET call == inflight[i]
            IN  IsSome(call.settled)
                => \/ Val(call.settled) = Null
                   \/ /\ Val(call.settled) = JsonParse(call.stdout, call.file)
                      /\ call.closed)
    /\ [][\A i \in DOMAIN inflight :
            /\ (last'.op # "analyze" /\ IsSome(inflight[i].settled))
               => inflight'[i].settled = inflight[i].settled
            /\ (last'.op = "timeout" /\ ~IsSome(inflight[i].settled))
               => /\ inflight'[i].settled = Some(Null)
                  /\ inflight'[i].killed]_vars
    /\ (inflight # <<>> /\ ~IsSome(inflight[1].settled))
           ~> (inflight # <<>> /\ IsSome(inflight[1].settled))

\* The child closed after the timeout had killed it, with a parseable
\* document on stdout: the outcome is still the null the timeout delivered.
C18_Witness ==
    /\ inflight # <<>>
    /\ last.op = "close"
    /\ inflight[1].killed
    /\ inflight[1].closed
    /\ IsSome(JsonParse(inflight[1].stdout, inflight[1].file))
    /\ inflight[1].settled = Some(Null)


\* --------------------------------------------------------------------- C19
\* C19: analyze delivers null, and raises no exception or unhandled error
\* event, when the child cannot be spawned, when its stdout is empty or
\* white space only, and when its stdout is no JSON document; stderr output
\* does not make a failure of a document that parses.
C19_NullWithoutError ==
    \A i \in DOMAIN inflight :
        LET call == inflight[i]
            parsed == JsonParse(call.stdout, call.file)
        IN  /\ ~call.unhandled
            /\ ~call.pid => call.settled = Some(Null)
            /\ (call.closed /\ ~call.killed /\ ~call.errored)
               => call.settled =
                    (IF TrimIsEmpty(call.stdout) \/ ~IsSome(parsed)
                     THEN Some(Null) ELSE Some(parsed))


\* ================================================== documents of any shape

\* Documents the analyzer may print for f that parse as JSON: a whole
\* AnalysisResult, one without the symbols array, one without the
\* diagnostics array, and an object with neither.
ParsedDocs(f) ==
    { Result(f, <<Sym(nX, "variable", f, 1, 1, "P", "")>>, <<dOwn(f)>>),
      [file |-> f, diagnostics |-> <<dOwn(f)>>],
      [file |-> f, symbols |-> <<Sym(nPx, "field", f, 2, 3, "int", "P")>>],
      [success |-> TRUE] }

\* `for (const x of doc[field])` can run: the field is there (what is
\* there is an array in every document of the model).
Iterable(doc, field) == field \in DOMAIN doc

\* findMembers, findSymbolAt and findVariableType iterate result.symbols of
\* a cached result: with a cached document that has none they throw a
\* TypeError.
LookupThrows(c) == \E i \in DOMAIN c : ~Iterable(c[i][2], "symbols")

\* An analyzeFile without the finally block: when ingesting or publishing
\* throws, the file stays in the analyzing set.
AnalyzerResolveDocNoFinally(i, outcome) ==
    LET filePath == inflight[i].file
        indexed == IsSome(outcome) /\ Iterable(Val(outcome), "symbols")
        published == indexed /\ Iterable(Val(outcome), "diagnostics")
        threw == IsSome(outcome) /\ ~published
    IN  /\ cache' = CacheAfter(cache, filePath, outcome)
        /\ nameIndex' = IF indexed
                        THEN BuildIndex(nameIndex, filePath, Val(outcome))
                        ELSE nameIndex
        /\ globalSymbols' = IF indexed
                            THEN RebuildGlobalIndex(globalSymbols, nameIndex')
                            ELSE globalSymbols
        /\ diagnostics' = IF published
                          THEN PublishDiagnostics(diagnostics, Val(outcome))
                          ELSE diagnostics
        /\ analyzing' = IF threw THEN analyzing ELSE analyzing \ {filePath}
        /\ inflight' = InflightAfter(inflight, i, IsSome(outcome))
        /\ last' = [op |-> "resolve", file |-> filePath, started |-> FALSE,
                    ret |-> outcome, prev |-> GetResult(cache, filePath),
                    stale |-> inflight[i].stale, threw |-> threw]
        /\ UNCHANGED <<timerVars, openDocs, disposed, quietClosed>>

\* analyzeFile from its await to its end (lines 40-49) for a document of
\* any shape: cache.set runs first; buildIndex throws at its loop when the
\* document has no symbols, publishDiagnostics at its loop when it has no
\* diagnostics; nothing after the throw runs but the finally block, and the
\* promise analyzeFile returned is rejected.
AnalyzerResolveDoc(i, outcome) ==
    LET filePath == inflight[i].file
        indexed == IsSome(outcome) /\ Iterable(Val(outcome), "symbols")
        published == indexed /\ Iterable(Val(outcome), "diagnostics")
    IN  /\ cache' = CacheAfter(cache, filePath, outcome)
        /\ nameIndex' = IF indexed
                        THEN BuildIndex(nameIndex, filePath, Val(outcome))
                        ELSE nameIndex
        /\ globalSymbols' = IF indexed
                            THEN RebuildGlobalIndex(globalSymbols, nameIndex')
                            ELSE globalSymbols
        /\ diagnostics' = IF published
                          THEN PublishDiagnostics(diagnostics, Val(outcome))
                          ELSE diagnostics
        /\ analyzing' = analyzing \ {filePath}
        /\ inflight' = InflightAfter(inflight, i, IsSome(outcome))
        /\ last' = [op |-> "resolve", file |-> filePath, started |-> FALSE,
                    ret |-> outcome, prev |-> GetResult(cache, filePath),
                    stale |-> inflight[i].stale,
                    threw |-> IsSome(outcome) /\ ~published]
        /\ UNCHANGED <<timerVars, openDocs, disposed, quietClosed>>

\* The document specification: documents are opened, saved and closed and
\* the analyzer prints JSON documents of any shape.
NextDoc ==
    \/ \E f \in Files : OpenDoc(f)
    \/ \E f \in Files : SaveDoc(f, TRUE)
    \/ \E f \in Files : CloseDoc(f)
    \/ \E i \in DOMAIN inflight :
          \E o \in Outcomes(ParsedDocs(inflight[i].file)) :
              AnalyzerResolveDoc(i, o)

SpecDoc == Init /\ [][NextDoc]_vars

\* --------------------------------------------------------------------- C20
\* C20: for any document that parses as JSON, an object without the symbols
\* or the diagnostics array included, analyzeFile completes without
\* throwing, no later lookup throws, and the files with a cached result are
\* the files with a per-file index.
C20_NoExceptionEscapes ==
    /\ last.op = "resolve" => ~last.threw
    /\ ~LookupThrows(cache)
    /\ Range(MapKeys(cache)) = Range(MapKeys(nameIndex))


\* ------------------------------------------------- C4, C5 with hover calls

\* The symbols of a list that file f did not contribute.
OthersOf(symbols, f) ==
    LET Foreign(sym) == sym.file # f IN SelectSeq(symbols, Foreign)

\* C4: also when hover calls come between, ingesting R2 for file F after R1
\* leaves no symbol of R1 that R2 lacks in any name's list, and leaves the
\* symbols that the other cached files contributed to each name's list
\* unchanged in content and relative order.
C4_OthersKeepOrderOnIngest ==
    [][\A f \in Files :
         (/\ last'.op = "resolve" /\ last'.file = f /\ inflight' # inflight
          /\ IsSome(last'.ret)
          /\ MapHas(cache, f))
         => \A n \in ResolveNames :
              /\ \A s \in Range(FindSymbolsByName(globalSymbols', n)) :
                     s.file = f => s \in Range(Val(last'.ret).symbols)
              /\ OthersOf(FindSymbolsByName(globalSymbols', n), f) =
                     OthersOf(FindSymbolsByName(globalSymbols, n), f)]_vars

\* C5: also when hover calls come before, right after file F is closed
\* every name's list is the list it was before without the symbols of F:
\* those of the other files, in the same order as before.
C5_OthersKeepOrderOnClose ==
    [][\A f \in Files :
         (last'.op = "close" /\ last'.file = f /\ openDocs' # openDocs)
         => \A n \in ResolveNames :
              FindSymbolsByName(globalSymbols', n) =
                  OthersOf(FindSymbolsByName(globalSymbols, n), f)]_vars


\* ------------------------------------------------ the lookups, when called
\* findVariableType, findMembers and findSymbolAt are called by the hover,
\* definition, completion and reference providers; here each call is a step
\* of its own that records its arguments and what it returned.

\* A record of a lookup call: key is the variable name (findVariableType)
\* or the owner name (findMembers).
Looked(op, file, key, line, col, ret) ==
    [op |-> op, file |-> file, key |-> key, line |-> line, col |-> col,
     ret |-> ret]

\* One call of findVariableType(filePath, varName).
LookupVariableType(filePath, varName) ==
    /\ ~disposed
    /\ last' = Looked("findVariableType", filePath, varName, 0, 0,
                      FindVariableType(cache, filePath, varName))
    /\ UNCHANGED <<cacheVars, timerVars, analyzing, inflight, openDocs,
                   disposed, quietClosed>>

\* One call of findMembers(typeName).
LookupMembers(typeName) ==
    /\ ~disposed
    /\ last' = Looked("findMembers", "", typeName, 0, 0,
                      FindMembers(cache, typeName))
    /\ UNCHANGED <<cacheVars, timerVars, analyzing, inflight, openDocs,
                   disposed, quietClosed>>

\* One call of findSymbolAt(filePath, line, col).
LookupNear(filePath, line, col) ==
    /\ ~disposed
    /\ last' = Looked("findSymbolAt", filePath, <<>>, line, col,
                      FindSymbolAt(cache, filePath, line, col))
    /\ UNCHANGED <<cacheVars, timerVars, analyzing, inflight, openDocs,
                   disposed, quietClosed>>

\* Analyzer results of the lookup specification for file f. Line 1 of f has
\* x three times (an untyped variable at column 1, a function at column 2, a
\* typed parameter at column 3); line 2 has the field P.x; pxOther and
\* xOther are symbols the analysis of f reports for the other file.
LookupResults(f) ==
    LET xBare == Sym(nX, "variable", f, 1, 1, "", "")
        xFn == Sym(nX, "function", f, 1, 2, "fn", "")
        xPar == Sym(nX, "parameter", f, 1, 3, "int", "")
        px == Sym(nPx, "field", f, 2, 3, "bool", "P")
        pxOther == Sym(nPx, "method", OtherFile(f), 1, 1, "P", "P")
        xOther == Sym(nX, "constant", OtherFile(f), 2, 1, "Q", "")
    IN  { Result(f, <<xBare, xPar, px>>, <<>>),
          Result(f, <<xFn, px, xPar>>, <<>>),
          Result(f, <<pxOther, xBare>>, <<>>),
          Result(f, <<xOther, px>>, <<>>),
          Result(f, <<pxOther>>, <<>>) }

\* What the lookups are called with.
LookupVars == {nX, nPx, <<"y">>}
LookupTypes == {"P", "Q", ""}
LookupAtLines == {1, 2}
LookupAtCols == {1, 2, 3}

\* The lookup specification: open, save, close, analyzer completions, and
\* the three lookups called at any moment between them.
NextLookup ==
    \/ \E f \in Files : OpenDoc(f)
    \/ \E f \in Files : SaveDoc(f, TRUE)
    \/ \E f \in Files : CloseDoc(f)
    \/ \E i \in DOMAIN inflight :
          \E o \in Outcomes(LookupResults(inflight[i].file)) :
              AnalyzerResolve(i, o)
    \/ \E f \in Files, v \in LookupVars : LookupVariableType(f, v)
    \/ \E t \in LookupTypes : LookupMembers(t)
    \/ \E f \in Files, l \in LookupAtLines, c \in LookupAtCols :
          LookupNear(f, l, c)

SpecLookup == Init /\ [][NextLookup]_vars

\* name's simple name (the text after its last dot, the whole of a name
\* without a dot) is v.
HasSimpleName(name, v) ==
    /\ \A i \in DOMAIN v : v[i] # "."
    /\ \/ name = v
       \/ \E k \in DOMAIN name :
             name[k] = "." /\ SubSeq(name, k + 1, Len(name)) = v

\* The symbols of file f's cached result, none when f has none.
CachedSymbols(f) ==
    IF \E i \in DOMAIN cache : cache[i][1] = f
    THEN cache[CHOOSE i \in DOMAIN cache : cache[i][1] = f][2].symbols
    ELSE <<>>

\* --------------------------------------------------------------------- C21
\* C21: findVariableType(file, v) returns the detail of the first symbol of
\* that file's cached result whose kind is variable, constant, parameter or
\* field, whose simple name is v and whose detail is non-empty, and null
\* when the file has no cached result or no such symbol; the results cached
\* for other files and matching symbols with an empty detail play no part.
C21_VariableTypeFirstTyped ==
    last.op = "findVariableType" =>
        LET syms == CachedSymbols(last.file)
            Typed == { i \in DOMAIN syms :
                         /\ syms[i].kind \in {"variable", "constant",
                                              "parameter", "field"}
                         /\ HasSimpleName(syms[i].name, last.key)
                         /\ syms[i].detail # "" }
        IN  IF Typed = {} THEN last.ret = Null
            ELSE \E i \in Typed :
                    /\ \A j \in Typed : i <= j
                    /\ last.ret = Some(syms[i].detail)

\* findVariableType answered with the type of a later symbol because the
\* first x of the file has no detail, while the other file is cached with a
\* different first typed x.
C21_Witness ==
    /\ last.op = "findVariableType"
    /\ last.key = nX
    /\ Len(cache) = 2
    /\ CachedSymbols(last.file)[1].name = nX
    /\ CachedSymbols(last.file)[1].detail = ""
    /\ last.ret = Some("int")
    /\ FindVariableType(cache, OtherFile(last.file), nX) = Some("Q")


\* The places <<file position in the cache, position in that result>> of the
\* cached symbols whose parent is owner.
MemberPlaces(owner) ==
    UNION { { <<i, j>> : j \in { k \in DOMAIN cache[i][2].symbols :
                                    cache[i][2].symbols[k].parent = owner } } :
            i \in DOMAIN cache }

\* Place p comes before place q: an earlier cached file, or the same file
\* and an earlier position in its result.
PlaceBefore(p, q) == p[1] < q[1] \/ (p[1] = q[1] /\ p[2] < q[2])

\* ret lists exactly the cached symbols whose parent is owner, by cached
\* file and then by position in the file's result.
IsMembersList(ret, owner) ==
    /\ Len(ret) = Cardinality(MemberPlaces(owner))
    /\ \A p \in MemberPlaces(owner) :
          LET k == 1 + Cardinality({ q \in MemberPlaces(owner) :
                                        PlaceBefore(q, p) })
          IN  ret[k] = cache[p[1]][2].symbols[p[2]]

\* --------------------------------------------------------------------- C22
\* C22, the lookup itself: findMembers(owner) returns exactly the symbols of
\* all cached results whose parent is owner, ordered by cached file and then
\* by position in that file's result, and the empty list when there is none.
C22_MembersInCacheOrder ==
    last.op = "findMembers" => IsMembersList(last.ret, last.key)

\* findMembers returned members from both cached results, the first cached
\* file's first.
C22_Witness ==
    /\ last.op = "findMembers"
    /\ last.key = "P"
    /\ Len(cache) = 2
    /\ Len(last.ret) >= 2
    /\ last.ret[1] \in Range(cache[1][2].symbols)
    /\ last.ret[Len(last.ret)] \in Range(cache[2][2].symbols)

\* C22: findMembers(owner) returns exactly the cached symbols whose parent
\* is owner, by cached file and position, and after a file is closed (and
\* as long as no analysis of it is requested again) none of the symbols of a
\* result of that file are returned.
C22_MembersNoneOfClosedFile ==
    last.op = "findMembers" =>
        /\ IsMembersList(last.ret, last.key)
        /\ \A f \in quietClosed :
              \A p \in MemberPlaces(last.key) : cache[p[1]][1] # f

\* --------------------------------------------------------------------- C23
\* C23: findSymbolAt(file, line, col) returns a symbol of that file's cached
\* result that is located in that file on exactly that line and whose
\* column distance |sym.col - col| is minimal among those symbols, the first
\* of them in result order on a tie; it returns null when the file has no
\* cached result or no symbol on that line.
C23_NearestOnTheLine ==
    last.op = "findSymbolAt" =>
        LET syms == CachedSymbols(last.file)
            OnLine == { i \in DOMAIN syms :
                          /\ syms[i].file = last.file
                          /\ syms[i].line = last.line }
            Dist(i) == IF syms[i].col >= last.col
                       THEN syms[i].col - last.col
                       ELSE last.col - syms[i].col
        IN  IF OnLine = {} THEN last.ret = Null
            ELSE \E i \in OnLine :
                    /\ last.ret = Some(syms[i])
                    /\ \A j \in OnLine :
                          Dist(i) < Dist(j) \/ (Dist(i) = Dist(j) /\ i <= j)

\* findSymbolAt was asked for a column between two symbols of the line, at
\* the same distance from both, and returned the first of them, while a
\* symbol of another line or file comes first in the result or is nearer.
C23_Witness ==
    /\ last.op = "findSymbolAt"
    /\ last.line = 1
    /\ last.col = 2
    /\ IsSome(last.ret)
    /\ Val(last.ret).col = 1
    /\ \E s \in Range(CachedSymbols(last.file)) :
          s.line = 1 /\ s.col = 3 /\ s.file = last.file
    /\ \E s \in Range(CachedSymbols(last.file)) : s.line # 1


\* ------------------------------------------- activation and configuration

\* config.get(key, default): the configured value, the default when the
\* setting is not set (Null).
ConfigGet(setting, default) ==
    IF IsSome(setting) THEN Val(setting) ELSE default

\* How the `--help` process of checkBinary may end: it cannot be started
\* ('error'), it exits with a code, it is ended by a signal ('close' with a
\* null code), or it is still running after 5 seconds.
Probes == {"error", "exit", "signal", "timeout"}

\* checkBinary (getBinaryPath never returns null): what the promise
\* resolves with.
CheckBinary(probe) ==
    CASE probe = "error" -> FALSE
      [] probe = "exit" -> TRUE
      [] probe = "signal" -> FALSE
      [] probe = "timeout" -> FALSE

\* activate from its binary check to its end, lines 33-149: the probe, the
\* warning when it fails, then (providers and handlers registered) one
\* analyzeFile per document already open. No handler runs before it ends.
Activate(docs, probe) ==
    /\ last.op = "init"
    /\ ~disposed
    /\ openDocs' = docs
    /\ CallAnalyzeFile(docs)
    /\ last' = [op |-> "activate", file |-> "", started |-> docs # {},
                ret |-> Null, prev |-> Null, stale |-> FALSE,
                probe |-> probe, ok |-> CheckBinary(probe),
                prompted |-> ~CheckBinary(probe)]
    /\ UNCHANGED <<cacheVars, timerVars, disposed, quietClosed>>

\* onDidSaveTextDocument with the bismut.analyzeOnSave setting as configured
\* (Null when not set), lines 95-96.
OnDidSave(f, analyzeOnSave) == SaveDoc(f, ConfigGet(analyzeOnSave, TRUE))

\* bismut.analyzeDebounceMs when not set (line 110).
DefaultDebounceMs == 800

\* onDidChangeTextDocument with the bismut.analyzeOnType and
\* bismut.analyzeDebounceMs settings as configured, lines 108-111.
OnDidChange(f, analyzeOnType, analyzeDebounceMs) ==
    ChangeDoc(f, ConfigGet(analyzeOnType, TRUE),
              ConfigGet(analyzeDebounceMs, DefaultDebounceMs))

\* The settings of the configuration specification: not set, or set.
BoolSettings == {Null, Some(TRUE), Some(FALSE)}
DelaySettings == {Null, Some(1), Some(2)}

\* The document of the configuration specification.
ConfigFiles == {"a.mut"}

\* The configuration specification: activation, then the events of one
\* document under every combination of settings, with time in milliseconds.
NextConfig ==
    \/ \E docs \in SUBSET ConfigFiles, p \in Probes : Activate(docs, p)
    \/ last.op # "init" /\ \E f \in ConfigFiles : OpenDoc(f)
    \/ last.op # "init" /\ \E f \in ConfigFiles, s \in BoolSettings :
                              OnDidSave(f, s)
    \/ last.op # "init" /\ \E f \in ConfigFiles, s \in BoolSettings,
                              d \in DelaySettings : OnDidChange(f, s, d)
    \/ last.op # "init" /\ \E f \in ConfigFiles : CloseDoc(f)
    \/ last.op # "init" /\ ConfigChanged
    \/ \E t \in timers : TimerFire(t)
    \/ Tick
    \/ \E i \in DOMAIN inflight :
          \E o \in Outcomes(SchedResults(inflight[i].file)) :
              AnalyzerResolve(i, o)

SpecConfig == Init /\ [][NextConfig]_vars

\* The handler that ran last made the binary probe.
ProbeRan == "probe" \in DOMAIN last

\* --------------------------------------------------------------------- C24
\* C24: on a change of compilerPath or compilerDir the binary probe runs
\* again and the user is prompted when it fails; and the probe and the
\* prompt happen only at activation and on such a change, never on an edit,
\* a save or an analysis.
C24_ProbeOnConfigurationChange ==
    /\ last.op = "config" => (ProbeRan /\ (~last.ok => last.prompted))
    /\ ProbeRan => last.op \in {"activate", "config"}

\* C24, the part that holds: the probe runs at activation, with the prompt
\* exactly when it fails, and no other handler makes it.
C24_ProbeAtActivationOnly ==
    /\ last.op = "activate" => (ProbeRan /\ last.prompted = ~last.ok)
    /\ ProbeRan => last.op = "activate"


\* Nothing is requested and no timer changes in the step.
NoRequestNoTimer ==
    /\ inflight' = inflight
    /\ analyzing' = analyzing
    /\ timers' = timers
    /\ debounceTimers' = debounceTimers

\* --------------------------------------------------------------------- C25
\* C25: a save calls analyzeFile at once if and only if analyzeOnSave is
\* true or not set; an edit issues a debounced request, its timer set to
\* analyzeDebounceMs (800 when not set), if and only if analyzeOnType is
\* true or not set; with the option false the event requests nothing and
\* changes no timer.
C25_EventsGatedByConfiguration ==
    [][\A f \in ConfigFiles, s \in BoolSettings :
         /\ OnDidSave(f, s) =>
              IF s # Some(FALSE)
              THEN /\ last'.op = "save"
                   /\ last'.file = f
                   /\ last'.started = (f \notin analyzing)
                   /\ f \in analyzing'
                   /\ \E i \in DOMAIN inflight' : inflight'[i].file = f
                   /\ timers' = timers
              ELSE NoRequestNoTimer
         /\ \A d \in DelaySettings :
              OnDidChange(f, s, d) =>
                 IF s # Some(FALSE)
                 THEN /\ last'.op = "debounce"
                      /\ last'.file = f
                      /\ inflight' = inflight
                      /\ \E t \in timers' :
                            /\ t.file = f
                            /\ t.remaining = (IF d = Null THEN 800
                                              ELSE Val(d))
                            /\ debounceTimers'[f] = Some(t.id)
                            /\ \A u \in timers' : u.file = f => u = t
                 ELSE NoRequestNoTimer]_vars

\* An event that the configuration gates off left a debounce timer, set
\* with the default delay and partly elapsed, as it was.
C25_Witness ==
    /\ last.op = "skip"
    /\ \E t \in timers : t.remaining = 799
    /\ inflight = <<>>


\* ------------------------------------------------- the analyzer's command

\* getBinaryPath, lines 49-57, with bismut.compilerPath as configured.
GetBinaryPath(compilerPath) ==
    LET configPath == ConfigGet(compilerPath, "")
    IN  IF configPath # "" THEN configPath ELSE "bismut"

\* getCompilerDir, lines 59-64, with bismut.compilerDir as configured.
GetCompilerDir(compilerDir) == ConfigGet(compilerDir, "")

\* Arguments that always carry a --compiler-dir.
AnalyzeArgsWithDir(filePath, compilerDir) ==
    <<"analyze", filePath, "--compiler-dir", compilerDir>>

\* The args of lines 72-76, compilerDir being what getCompilerDir returned.
AnalyzeArgs(filePath, compilerDir) ==
    <<"analyze", filePath>>
        \o (IF compilerDir # "" THEN <<"--compiler-dir", compilerDir>>
            ELSE <<>>)

\* The settings of the command specification: not set, empty, or a path.
PathSettings == {Null, Some(""), Some("/opt/bismut/bin/bismut")}
DirSettings == {Null, Some(""), Some("/opt/bismut")}

\* analyze(filePath) as Analyze above, with the two settings as configured
\* and the command given to cp.spawn (line 87) recorded.
AnalyzeConfigured(filePath, compilerPath, compilerDir, spawned) ==
    /\ \A i \in DOMAIN inflight : Finished(inflight[i])
    /\ inflight' = <<NewCall(filePath, spawned)>>
    /\ timers' = IF spawned
                 THEN {[id |-> 1, file |-> filePath, remaining |-> MaxWait]}
                 ELSE {}
    /\ last' = [op |-> "analyze", file |-> filePath, started |-> spawned,
                ret |-> Null, prev |-> Null, stale |-> FALSE,
                compilerPath |-> compilerPath, compilerDir |-> compilerDir,
                binary |-> GetBinaryPath(compilerPath),
                args |-> AnalyzeArgs(filePath, GetCompilerDir(compilerDir))]
    /\ UNCHANGED <<cacheVars, debounceTimers, analyzing, openDocs, disposed,
                   quietClosed>>

\* The command specification: the analyzer process under every combination
\* of the two settings.
NextCommand ==
    \/ \E f \in Files, p \in PathSettings, d \in DirSettings,
          spawned \in BOOLEAN : AnalyzeConfigured(f, p, d, spawned)
    \/ \E i \in DOMAIN inflight, chunk \in StdoutTokens : StdoutData(i, chunk)
    \/ \E i \in DOMAIN inflight : StderrData(i)
    \/ \E i \in DOMAIN inflight : ProcClose(i)
    \/ \E i \in DOMAIN inflight : ProcError(i)
    \/ \E t \in timers : OnTimeout(t)
    \/ Tick

SpecCommand == Init /\ [][NextCommand]_vars

\* --------------------------------------------------------------------- C26
\* C26: the analyzer is started with the arguments [analyze, filePath] when
\* compilerDir is empty or not set and [analyze, filePath, --compiler-dir,
\* dir] when it is the non-empty string dir; the binary is compilerPath when
\* that is non-empty and the bare name bismut otherwise; no compiler
\* directory is passed that was not configured.
C26_AnalyzerCommand ==
    last.op = "analyze" =>
        /\ last.args =
              IF last.compilerDir \in {Null, Some("")}
              THEN <<"analyze", last.file>>
              ELSE <<"analyze", last.file, "--compiler-dir",
                     Val(last.compilerDir)>>
        /\ last.binary =
              IF last.compilerPath \in {Null, Some("")} THEN "bismut"
              ELSE Val(last.compilerPath)

\* The analyzer was started as the bare name bismut with a configured
\* compiler directory.
C26_Witness ==
    /\ last.op = "analyze"
    /\ last.compilerPath = Null
    /\ last.compilerDir = Some("/opt/bismut")
    /\ last.binary = "bismut"
    /\ Len(last.args) = 4
    /\ Len(inflight) = 1


\* --------------------------------------------------------------- freshness

\* The freshness specification: documents are opened, saved and edited with
\* both options on, the analyzer always succeeds, and what the program
\* itself has scheduled happens: time passes, due timers fire, pending
\* analyses complete. The user's events are under no such obligation.
NextFresh ==
    \/ \E f \in Files : OpenDoc(f)
    \/ \E f \in Files : SaveDoc(f, TRUE)
    \/ \E f \in Files, d \in 1..MaxDelay : ChangeDoc(f, TRUE, d)
    \/ \E t \in timers : TimerFire(t)
    \/ Tick
    \/ \E i \in DOMAIN inflight :
          \E r \in SchedResults(inflight[i].file) :
              AnalyzerResolve(i, Some(r))

SpecFresh ==
    /\ Init
    /\ [][NextFresh]_vars
    /\ WF_vars(Tick)
    /\ WF_vars(\E t \in timers : TimerFire(t))
    /\ WF_vars(\E i \in DOMAIN inflight :
                  \E r \in SchedResults(inflight[i].file) :
                      AnalyzerResolve(i, Some(r)))

\* File f was just saved or edited while an analysis of f was in flight.
EventDuringAnalysis(f) ==
    /\ last.file = f
    /\ f \in analyzing
    /\ \/ last.op = "save" /\ ~last.started
       \/ last.op = "debounce"

\* An analyzer invocation for f was just started, or the user just made
\* another event for f for which no analysis is in flight.
StartedOrNewEvent(f) ==
    /\ last.file = f
    /\ \/ last.op \in RequestOps /\ last.started
       \/ last.op = "debounce" /\ f \notin analyzing

\* --------------------------------------------------------------------- C27
\* C27: freshness: when F is saved or edited while an analysis of F is in
\* flight, then, unless a further event for F follows, an analyzer
\* invocation for F is started after that event (whose result is then
\* applied): the cache does not stay at a result computed before the event.
C27_FreshAfterEventDuringAnalysis ==
    \A f \in Files : EventDuringAnalysis(f) ~> StartedOrNewEvent(f)


\* --------------------------------------------------------------------- C28
\* C28: queries are read-only: a hover or go-to-definition call leaves the
\* cached results, the per-file indices and the global index as they were,
\* the order of every name's symbol list included, so findSymbolsByName(n)
\* and findDefinition(n) answer the same before and after the call.
C28_QueriesAreReadOnly ==
    [][last'.op \in ProviderOps =>
          /\ cache' = cache
          /\ nameIndex' = nameIndex
          /\ globalSymbols' = globalSymbols
          /\ \A n \in ResolveNames :
                /\ FindSymbolsByName(globalSymbols', n)
                      = FindSymbolsByName(globalSymbols, n)
                /\ FindDefinition(globalSymbols', n)
                      = FindDefinition(globalSymbols, n)]_vars

\* C28 for the calls that are read-only: go-to-definition changes nothing,
\* and a hover changes neither the cached results nor the per-file indices
\* nor which symbols the global index lists under each name.
C28_QueriesKeepTheSymbols ==
    [][last'.op \in ProviderOps =>
          /\ cache' = cache
          /\ nameIndex' = nameIndex
          /\ last'.op = "definition" => globalSymbols' = globalSymbols
          /\ MapKeys(globalSymbols') = MapKeys(globalSymbols)
          /\ \A n \in ResolveNames :
                LET before == FindSymbolsByName(globalSymbols, n)
                    after == FindSymbolsByName(globalSymbols', n)
                IN  /\ Len(after) = Len(before)
                    /\ \A s \in Range(before) \cup Range(after) :
                          Cardinality({ i \in DOMAIN before : before[i] = s })
                          = Cardinality({ i \in DOMAIN after :
                                             after[i] = s })]_vars


\* --------------------------------------------------------------------- C29
\* C29: closing F cancels F's pending debounced request: as long as no
\* request for F was issued since F was closed, no timer callback starts an
\* analyzer invocation for F.
C29_CloseCancelsDebounce ==
    [][(last'.op = "fire" /\ last'.file \in quietClosed) =>
          /\ ~last'.started
          /\ inflight' = inflight]_vars

\* C29 as the state of the timers: a file closed with no request since has
\* no debounce timer.
C29_NoTimerOfClosedFile ==
    \A f \in quietClosed :
        /\ debounceTimers[f] = Null
        /\ \A t \in timers : t.file # f


\* --------------------------------------------------------------------- C30
\* C30: the analyzing set holds exactly the files with an outstanding
\* analyzer invocation: when an analysis of F completes, with a result, with
\* null or with an exception thrown while the result is ingested or
\* published, F leaves the set, and a request for a file with no outstanding
\* invocation starts one.
C30_InFlightSetIsExact ==
    /\ [](analyzing = { inflight[i].file : i \in DOMAIN inflight })
    /\ [](last.op = "resolve" => last.file \notin analyzing)
    /\ [][\A f \in Files :
            (last'.op \in RequestOps /\ last'.file = f /\ PendingFor(f) = {})
            => /\ last'.started
               /\ inflight' = Append(inflight,
                                     [file |-> f, stale |-> FALSE])
               /\ analyzing' = analyzing \cup {f}]_vars

\* An analysis of b.mut was started after an earlier one had ended with an
\* exception, and then an analysis of a.mut ended with an exception too:
\* only b.mut is in the set.
C30_Witness ==
    /\ last.op = "resolve"
    /\ last.threw
    /\ last.file = "a.mut"
    /\ analyzing = {"b.mut"}
    /\ MapHas(cache, "b.mut")
    /\ ~Iterable(Val(MapGet(cache, "b.mut")), "symbols")


\* ------------------------------------------------ symbols of a shared file

\* A function declared in a file both documents import: the analysis of
\* each document reports it, with the file it is declared in.
xLib == Sym(nX, "function", "lib.mut", 1, 1, "fn", "")

\* Analyzer results of the shared-file specification for f: f's own
\* variable x, the imported function x, or both.
SharedResults(f) ==
    LET own == Sym(nX, "variable", f, 2, 1, "int", "")
    IN  { Result(f, <<own>>, <<>>),
          Result(f, <<xLib>>, <<>>),
          Result(f, <<own, xLib>>, <<>>) }

\* The shared-file specification: open, save, close and analyzer
\* completions with the results above.
NextShared ==
    \/ \E f \in Files : OpenDoc(f)
    \/ \E f \in Files : SaveDoc(f, TRUE)
    \/ \E f \in Files : CloseDoc(f)
    \/ \E i \in DOMAIN inflight :
          \E o \in Outcomes(SharedResults(inflight[i].file)) :
              AnalyzerResolve(i, o)

SpecShared == Init /\ [][NextShared]_vars

\* Two entries describe the same symbol.
SameSymbol(s, t) ==
    /\ s.name = t.name
    /\ s.kind = t.kind
    /\ s.file = t.file
    /\ s.line = t.line
    /\ s.col = t.col

\* --------------------------------------------------------------------- C31
\* C31: for every name the global index holds an ordered set: the list
\* findSymbolsByName(n) returns has no two entries that describe the same
\* symbol, also when the results of two analyzed files both report a symbol
\* declared in a third file.
C31_NoSymbolListedTwice ==
    \A n \in {nX, <<"y">>} :
        LET list == FindSymbolsByName(globalSymbols, n)
        IN  \A i, j \in DOMAIN list :
               SameSymbol(list[i], list[j]) => i = j

\* C31 for one file: the list of a name has no two entries of the same
\* cached result that describe the same symbol, the result having none.
C31_NoSymbolTwiceFromOneFile ==
    \A n \in {nX, <<"y">>} :
        LET list == FindSymbolsByName(globalSymbols, n)
        IN  \A i, j \in DOMAIN list :
               (SameSymbol(list[i], list[j]) /\ i # j) => Len(cache) = 2


\* ============================================================ completion.ts

\* The characters of the line texts of the model: letters, a digit, a space
\* and a dot.
IdentStartChars == {"x", "P", "f", "_"}
IdentPartChars == IdentStartChars \cup {"1"}

\* String.trimEnd on a text given by its characters.
RECURSIVE TrimEnd(_)
TrimEnd(text) ==
    IF text # <<>> /\ text[Len(text)] = " "
    THEN TrimEnd(SubSeq(text, 1, Len(text) - 1))
    ELSE text

\* text.match(/([a-zA-Z_][a-zA-Z0-9_]*)$/): the leftmost position from which
\* the rest of the text is an identifier; group 1 of the match, null when
\* there is none.
IdentAtEnd(text) ==
    LET starts == { i \in DOMAIN text :
                      /\ text[i] \in IdentStartChars
                      /\ \A j \in i..Len(text) : text[j] \in IdentPartChars }
    IN  IF starts = {} THEN Null
        ELSE Some(SubSeq(text, CHOOSE i \in starts : \A j \in starts : i <= j,
                         Len(text)))

\* The strings of the model that identifiers and type names can be.
Words == {"x", "P", "Q", "f", "int"}

\* The string with the given characters.
Text(chars) == CHOOSE s \in Words : Chars(s) = chars

\* A dot completion that does not retry with the bare identifier.
DotCompletionNoRetry(c, filePath, beforeDot) ==
    LET identMatch == IdentAtEnd(TrimEnd(beforeDot))
        varName == Val(identMatch)
        found == FindVariableType(c, filePath, varName)
        typeName == IF IsSome(found) THEN Val(found) ELSE Text(varName)
        NotParameter(m) == m.kind # "parameter"
    IN  IF identMatch = Null THEN <<>>
        ELSE SelectSeq(FindMembers(c, typeName), NotParameter)

\* provideDotCompletion, lines 29-68, for the text of the line before the
\* dot: the symbols the returned items are made from, in order.
DotCompletion(c, filePath, beforeDot) ==
    LET identMatch == IdentAtEnd(TrimEnd(beforeDot))
        varName == Val(identMatch)
        found == FindVariableType(c, filePath, varName)
        typeName == IF IsSome(found) THEN Val(found) ELSE Text(varName)
        members == FindMembers(c, typeName)
        enumMembers == FindMembers(c, Text(varName))
        NotParameter(m) == m.kind # "parameter"
    IN  IF identMatch = Null THEN <<>>
        ELSE IF members = <<>> THEN enumMembers
        ELSE SelectSeq(members, NotParameter)

\* completionKindMap[sym.kind] ?? Variable
CompletionKind(kind) ==
    CASE kind = "function" -> "Function"
      [] kind = "class" -> "Class"
      [] kind = "struct" -> "Struct"
      [] kind = "interface" -> "Interface"
      [] kind = "enum" -> "Enum"
      [] kind = "method" -> "Method"
      [] kind = "method_sig" -> "Method"
      [] kind = "field" -> "Field"
      [] kind = "variable" -> "Variable"
      [] kind = "constant" -> "Constant"
      [] kind = "parameter" -> "Variable"
      [] kind = "enum_variant" -> "EnumMember"
      [] OTHER -> "Variable"

\* symbolToCompletionItem, lines 124-146 (documentation left out, the model's
\* symbols having no doc): label, kind, detail and whether the insert text
\* is the call snippet.
SymbolToCompletionItem(sym) ==
    [label |-> SimpleName(sym.name),
     kind |-> CompletionKind(sym.kind),
     detail |-> IF sym.detail # "" THEN Some(sym.detail) ELSE Null,
     snippet |-> sym.kind \in {"function", "method"}]

\* provideCompletionItems triggered by a dot in an open document: the
\* identifier found, the symbols chosen and the items returned are recorded.
CompleteAtDot(f, beforeDot) ==
    /\ ~disposed
    /\ f \in openDocs
    /\ last' = Asked("completion", f, IdentAtEnd(TrimEnd(beforeDot)),
                     beforeDot, DotCompletion(cache, f, beforeDot),
                     [i \in DOMAIN DotCompletion(cache, f, beforeDot) |->
                         SymbolToCompletionItem(
                             DotCompletion(cache, f, beforeDot)[i])])
    /\ UNCHANGED <<cacheVars, timerVars, analyzing, inflight, openDocs,
                   disposed, quietClosed>>

\* Analyzer results of the completion specification for f: a variable x of
\* struct type P with P's field and method; a function f with its
\* parameter; a variable x of type int beside a function x with its
\* parameter; an enum P with a variant; a variable x whose type Q has no
\* members.
CompletionResults(f) ==
    { Result(f, <<Sym(nX, "variable", f, 1, 1, "P", ""),
                  Sym(nPx, "field", f, 2, 3, "int", "P"),
                  Sym(<<"P", ".", "f">>, "method", f, 3, 3, "()", "P")>>,
             <<>>),
      Result(f, <<Sym(<<"f">>, "function", f, 1, 1, "()", ""),
                  Sym(nX, "parameter", f, 1, 7, "int", "f")>>, <<>>),
      Result(f, <<Sym(nX, "variable", f, 1, 1, "int", ""),
                  Sym(nX, "function", f, 2, 1, "()", ""),
                  Sym(<<"f">>, "parameter", f, 2, 7, "int", "x")>>, <<>>),
      Result(f, <<Sym(nP, "enum", f, 1, 1, "", ""),
                  Sym(nPx, "enum_variant", f, 2, 3, "", "P")>>, <<>>),
      Result(f, <<Sym(nX, "variable", f, 1, 1, "Q", "")>>, <<>>) }

\* The texts before the dot: an identifier, one followed by spaces, one
\* after a digit, after another member access, a number, nothing.
TextsBeforeDot ==
    { <<"x">>, <<"f", " ">>, <<"1", "P">>, <<"P", ".", "x">>, <<"1">>,
      <<>>, <<"(", " ">> }

\* The completion specification.
NextComplete ==
    \/ \E f \in Files : OpenDoc(f)
    \/ \E f \in Files : SaveDoc(f, TRUE)
    \/ \E f \in Files : CloseDoc(f)
    \/ \E i \in DOMAIN inflight :
          \E o \in Outcomes(CompletionResults(inflight[i].file)) :
              AnalyzerResolve(i, o)
    \/ \E f \in Files, t \in TextsBeforeDot : CompleteAtDot(f, t)

SpecComplete == Init /\ [][NextComplete]_vars

\* The identifier that ends text once trailing spaces are dropped: the
\* letters, digits and underscores at the end of it, from their first
\* character that is not a digit; null when they have none.
IdentifierBefore(text) ==
    LET n == CHOOSE k \in 0..Len(text) :
                 /\ \A i \in (k + 1)..Len(text) : text[i] = " "
                 /\ k > 0 => text[k] # " "
        tail == { i \in 1..n : \A j \in i..n : text[j] \in IdentPartChars }
        first == { i \in tail : text[i] # "1" }
    IN  IF first = {} THEN Null
        ELSE Some(SubSeq(text, CHOOSE i \in first : \A j \in first : i <= j,
                         n))

\* The type name dot completion enumerates first for identifier r in the
\* file: its variable type when it has one, r itself otherwise.
TypeOrSelf(f, r) ==
    IF IsSome(FindVariableType(cache, f, r))
    THEN Val(FindVariableType(cache, f, r))
    ELSE Text(r)

\* The list without its symbols of kind parameter.
RECURSIVE WithoutParameters(_)
WithoutParameters(list) ==
    IF list = <<>> THEN <<>>
    ELSE IF Head(list).kind = "parameter" THEN WithoutParameters(Tail(list))
    ELSE <<Head(list)>> \o WithoutParameters(Tail(list))

\* The cached symbols whose parent is owner, by file and position.
MembersOf(owner) ==
    LET places == MemberPlaces(owner)
        Rank(p) == 1 + Cardinality({ q \in places : PlaceBefore(q, p) })
        At(k) == CHOOSE p \in places : Rank(p) = k
    IN  [k \in 1..Cardinality(places) |->
            cache[At(k)[1]][2].symbols[At(k)[2]]]

\* --------------------------------------------------------------------- C32
\* C32 as stated: dot completion after `r.` returns findMembers(T), T being
\* findVariableType(file, r) when that is non-null and r otherwise; when
\* that list is empty it returns findMembers(r); it returns the empty list
\* only when both lists are empty or no identifier precedes the dot.
C32_DotCompletionEnumeratesMembers ==
    last.op = "completion" =>
        LET r == IdentifierBefore(last.word)
        IN  /\ last.dot = r
            /\ IF r = Null THEN last.sym = <<>>
               ELSE LET byType == MembersOf(TypeOrSelf(last.file, Val(r)))
                        byName == MembersOf(Text(Val(r)))
                    IN  /\ last.sym = IF byType # <<>> THEN byType
                                      ELSE byName
                        /\ last.sym = <<>>
                              => (byType = <<>> /\ byName = <<>>)

\* C32 with the parameter filter: when findMembers(T) is non-empty, dot
\* completion returns it without its symbols of kind parameter (the empty
\* list when it has no other) and does not retry; when findMembers(T) is
\* empty it returns findMembers(r) as it is; with no identifier before the
\* dot it returns the empty list. One item is returned per symbol, in order.
C32_DotCompletionFiltersFirstList ==
    last.op = "completion" =>
        LET r == IdentifierBefore(last.word)
        IN  /\ last.dot = r
            /\ Len(last.ret) = Len(last.sym)
            /\ IF r = Null THEN last.sym = <<>>
               ELSE LET byType == MembersOf(TypeOrSelf(last.file, Val(r)))
                        byName == MembersOf(Text(Val(r)))
                    IN  last.sym = IF byType # <<>>
                                   THEN WithoutParameters(byType)
                                   ELSE byName

\* Dot completion after a variable whose type has no members returned the
\* members cached under the variable's own name.
C32_Witness ==
    /\ last.op = "completion"
    /\ last.dot = Some(nX)
    /\ FindVariableType(cache, last.file, nX) = Some("int")
    /\ FindMembers(cache, "int") = <<>>
    /\ last.sym # <<>>
    /\ last.sym = FindMembers(cache, "x")

\* --------------------------------------------------------------------- C33
\* C33: dot completion never suggests a parameter: whichever list it
\* returns (the members of the declared type, the members of the bare
\* identifier, the enum fallback), no item is made from a symbol of kind
\* parameter.
C33_NoParameterSuggested ==
    last.op = "completion" =>
        \A i \in DOMAIN last.sym : last.sym[i].kind # "parameter"


\* ===================================================== the document outline

\* symbolKindMap[sym.kind] ?? Variable
SymbolKind(kind) ==
    CASE kind = "function" -> "Function"
      [] kind = "class" -> "Class"
      [] kind = "struct" -> "Struct"
      [] kind = "interface" -> "Interface"
      [] kind = "enum" -> "Enum"
      [] kind = "method" -> "Method"
      [] kind = "method_sig" -> "Method"
      [] kind = "field" -> "Field"
      [] kind = "variable" -> "Variable"
      [] kind = "constant" -> "Constant"
      [] kind = "parameter" -> "Variable"
      [] kind = "enum_variant" -> "EnumMember"
      [] OTHER -> "Variable"

\* A toDocumentSymbol that makes an entry of an unlocated symbol too.
ToDocumentSymbolUnlocated(sym) ==
    Some([name |-> SimpleName(sym.name), detail |-> sym.detail,
          kind |-> SymbolKind(sym.kind), line |-> sym.line - 1,
          col |-> Max(0, sym.col - 1),
          endCol |-> Max(0, sym.col - 1) + Len(SimpleName(sym.name)),
          children |-> <<>>])

\* toDocumentSymbol, lines 339-362: null for a symbol with line <= 0, else
\* the entry (its range and selection range are the same, on one line).
ToDocumentSymbol(sym) ==
    IF sym.line <= 0 THEN Null
    ELSE Some([name |-> SimpleName(sym.name), detail |-> sym.detail,
               kind |-> SymbolKind(sym.kind), line |-> sym.line - 1,
               col |-> Max(0, sym.col - 1),
               endCol |-> Max(0, sym.col - 1) + Len(SimpleName(sym.name)),
               children |-> <<>>])

\* provideDocumentSymbols, lines 298-337. topLevelMap.set keeps the last
\* entry made for a name, so members go to the last top-level entry whose
\* symbol has their parent as its name.
Outline(c, filePath) ==
    LET InFile(s) == s.file = filePath
        fileSymbols == SelectSeq(GetSymbols(c, filePath), InFile)
        IsTop(s) == s.parent = "" /\ ToDocumentSymbol(s) # Null
        tops == SelectSeq(fileSymbols, IsTop)
        Mapped(i) == \A j \in DOMAIN tops :
                        tops[j].name = tops[i].name => j <= i
        ChildOf(i) ==
            LET Attached(s) == /\ s.parent # ""
                               /\ Chars(s.parent) = tops[i].name
                               /\ Mapped(i)
                               /\ ToDocumentSymbol(s) # Null
                members == SelectSeq(fileSymbols, Attached)
            IN  [k \in DOMAIN members |-> Val(ToDocumentSymbol(members[k]))]
    IN  [i \in DOMAIN tops |->
            [Val(ToDocumentSymbol(tops[i])) EXCEPT !.children = ChildOf(i)]]

\* provideDocumentSymbols for an open document.
ProvideOutline(f) ==
    /\ ~disposed
    /\ f \in openDocs
    /\ last' = Asked("outline", f, Null, <<>>, <<>>, Outline(cache, f))
    /\ UNCHANGED <<cacheVars, timerVars, analyzing, inflight, openDocs,
                   disposed, quietClosed>>

\* Analyzer results of the outline specification for f: a struct with a
\* field, an unlocated method, a field the analysis reports for the other
\* file, and a variable; a member listed before its parent, which is
\* declared twice; members whose parent is unlocated, a member itself, or
\* not there.
OutlineResults(f) ==
    { Result(f, <<Sym(nP, "struct", f, 1, 1, "", ""),
                  Sym(nPx, "field", f, 2, 3, "int", "P"),
                  Sym(<<"P", ".", "f">>, "method", f, 0, 0, "()", "P"),
                  Sym(nQx, "field", OtherFile(f), 3, 3, "int", "P"),
                  Sym(nX, "variable", f, 4, 1, "P", "")>>, <<>>),
      Result(f, <<Sym(nPx, "field", f, 2, 3, "int", "P"),
                  Sym(nP, "struct", f, 1, 1, "", ""),
                  Sym(nP, "function", f, 5, 1, "()", "")>>, <<>>),
      Result(f, <<Sym(nP, "struct", f, 0, 0, "", ""),
                  Sym(nPx, "field", f, 2, 3, "int", "P"),
                  Sym(nX, "function", f, 3, 1, "()", ""),
                  Sym(<<"f">>, "parameter", f, 3, 3, "int", "x"),
                  Sym(nQx, "variable", f, 4, 3, "int", "f"),
                  Sym(nX, "field", f, 5, 3, "int", "Q")>>, <<>>),
      Result(f, <<Sym(nX, "variable", OtherFile(f), 1, 1, "int", "")>>,
             <<>>) }

\* The outline specification.
NextOutline ==
    \/ \E f \in Files : OpenDoc(f)
    \/ \E f \in Files : SaveDoc(f, TRUE)
    \/ \E f \in Files : CloseDoc(f)
    \/ \E i \in DOMAIN inflight :
          \E o \in Outcomes(OutlineResults(inflight[i].file)) :
              AnalyzerResolve(i, o)
    \/ \E f \in Files : ProvideOutline(f)

SpecOutline == Init /\ [][NextOutline]_vars

\* Entry e is the outline entry of symbol s: its simple name, at its
\* position counted from zero.
EntryOf(e, s) ==
    /\ HasSimpleName(s.name, e.name)
    /\ e.line = s.line - 1
    /\ e.col = (IF s.col >= 1 THEN s.col - 1 ELSE 0)

\* --------------------------------------------------------------------- C34
\* C34: the outline of a file has as top-level entries exactly the cached
\* symbols of the file whose file field is the document, whose parent is
\* empty and whose line is at least 1, in result order; a symbol of the
\* document with a parent and a line of at least 1 is a child, once, of a
\* top-level entry whose symbol is named as its parent, and is left out when
\* there is none; nothing else is in the tree, which is two levels deep.
C34_OutlineIsTwoLevels ==
    last.op = "outline" =>
        LET syms == CachedSymbols(last.file)
            Shown == { i \in DOMAIN syms :
                         syms[i].file = last.file /\ syms[i].line >= 1 }
            Top == { i \in Shown : syms[i].parent = "" }
            Member == { i \in Shown : syms[i].parent # "" }
            Placed == { i \in Member :
                          \E t \in Top : syms[t].name = Chars(syms[i].parent) }
            TopAt(k) == CHOOSE i \in Top :
                            Cardinality({ j \in Top : j < i }) = k - 1
            Children == UNION { { <<k, m>> : m \in DOMAIN last.ret[k].children } :
                                k \in DOMAIN last.ret }
        IN  /\ Len(last.ret) = Cardinality(Top)
            /\ \A k \in DOMAIN last.ret : EntryOf(last.ret[k], syms[TopAt(k)])
            /\ Cardinality(Children) = Cardinality(Placed)
            /\ \A i \in Placed :
                  Cardinality({ c \in Children :
                      /\ EntryOf(last.ret[c[1]].children[c[2]], syms[i])
                      /\ syms[TopAt(c[1])].name = Chars(syms[i].parent) }) = 1
            /\ \A c \in Children :
                  last.ret[c[1]].children[c[2]].children = <<>>

\* The outline has two entries for the name P, the second with the field as
\* its child although the field comes first in the result.
C34_Witness ==
    /\ last.op = "outline"
    /\ Len(last.ret) = 2
    /\ last.ret[1].children = <<>>
    /\ Len(last.ret[2].children) = 1
    /\ last.ret[2].children[1].name = nX
    /\ CachedSymbols(last.file)[1].parent = "P"


\* ========================================================== find references

\* `\bword\b` matches line at position i (counted from one): the word is
\* there and neither neighbour is a word character.
MatchAt(line, word, i) ==
    /\ i + Len(word) - 1 <= Len(line)
    /\ SubSeq(line, i, i + Len(word) - 1) = word
    /\ i > 1 => line[i - 1] \notin IdentPartChars
    /\ i + Len(word) <= Len(line) => line[i + Len(word)] \notin IdentPartChars

\* The loop of wordRegex.exec over one line, lines 268-269: match.index of
\* every match (counted from zero), the search resuming after each match.
RECURSIVE ExecAll(_, _, _)
ExecAll(line, word, from) ==
    LET hits == { i \in from..Len(line) : MatchAt(line, word, i) }
        first == CHOOSE i \in hits : \A j \in hits : i <= j
    IN  IF hits = {} THEN <<>>
        ELSE <<first - 1>> \o ExecAll(line, word, first + Len(word))

\* The locations of the matches of a document, line by line (lines 266-271);
\* i is the index of the first of the lines given.
RECURSIVE FileMatches(_, _, _, _)
FileMatches(uri, lines, i, word) ==
    IF lines = <<>> THEN <<>>
    ELSE LET found == ExecAll(Head(lines), word, 1)
         IN  [k \in DOMAIN found |->
                 [uri |-> uri, line |-> i, character |-> found[k]]]
             \o FileMatches(uri, Tail(lines), i + 1, word)

\* A duplicate test that finds none.
IsDuplicateNever(locations, loc) == FALSE

\* isDuplicate, lines 273-278.
IsDuplicate(locations, loc) ==
    \E k \in DOMAIN locations :
        /\ locations[k].uri = loc.uri
        /\ locations[k].line = loc.line
        /\ locations[k].character = loc.character

\* Lines 279-281 for the matches of one document in turn.
RECURSIVE PushNew(_, _)
PushNew(locations, found) ==
    IF found = <<>> THEN locations
    ELSE PushNew(IF IsDuplicate(locations, Head(found)) THEN locations
                 ELSE Append(locations, Head(found)),
                 Tail(found))

\* The loop over the files findFiles returned, lines 260-287: a document
\* that cannot be opened throws into the empty catch.
RECURSIVE ScanFiles(_, _, _)
ScanFiles(locations, mutFiles, word) ==
    IF mutFiles = <<>> THEN locations
    ELSE ScanFiles(IF Head(mutFiles).opens
                   THEN PushNew(locations,
                                FileMatches(Head(mutFiles).uri,
                                            Head(mutFiles).lines, 0, word))
                   ELSE locations,
                   Tail(mutFiles), word)

\* provideReferences, lines 223-290, for the word under the cursor;
\* workspace is null without a workspace folder, else the files found.
References(global, word, includeDeclaration, workspace) ==
    LET sym == FindDefinition(global, word)
        declared == IF /\ includeDeclaration
                       /\ IsSome(sym)
                       /\ Val(sym).file # ""
                       /\ Val(sym).line > 0
                    THEN <<[uri |-> Val(sym).file, line |-> Val(sym).line - 1,
                            character |-> Max(0, Val(sym).col - 1)]>>
                    ELSE <<>>
    IN  IF workspace = Null THEN declared
        ELSE ScanFiles(declared, Val(workspace), word)

\* provideReferences on an open document.
ProvideReferences(f, word, includeDeclaration, workspace) ==
    /\ ~disposed
    /\ f \in openDocs
    /\ last' = [op |-> "references", file |-> f, word |-> word,
                include |-> includeDeclaration, workspace |-> workspace,
                ret |-> References(globalSymbols, word, includeDeclaration,
                                   workspace)]
    /\ UNCHANGED <<cacheVars, timerVars, analyzing, inflight, openDocs,
                   disposed, quietClosed>>

\* The text of the documents on disk, as lines of characters: in a.mut,
\* `x P` and `x.x xx`; in b.mut, `1x x`.
TextOf(f) ==
    IF f = "a.mut"
    THEN << <<"x", " ", "P">>, <<"x", ".", "x", " ", "x", "x">> >>
    ELSE << <<"1", "x", " ", "x">> >>

\* What findFiles and openTextDocument give: no workspace folder, no file,
\* both files, or both files of which the first cannot be opened.
Workspaces ==
    { Null,
      Some(<<>>),
      Some(<<[uri |-> "a.mut", opens |-> TRUE, lines |-> TextOf("a.mut")],
             [uri |-> "b.mut", opens |-> TRUE, lines |-> TextOf("b.mut")]>>),
      Some(<<[uri |-> "a.mut", opens |-> FALSE, lines |-> TextOf("a.mut")],
             [uri |-> "b.mut", opens |-> TRUE, lines |-> TextOf("b.mut")]>>) }

\* The references specification, with the results of the resolution
\* specification.
NextReferences ==
    \/ \E f \in Files : OpenDoc(f)
    \/ \E f \in Files : CloseDoc(f)
    \/ \E i \in DOMAIN inflight :
          \E o \in Outcomes(ResolveResults(inflight[i].file)) :
              AnalyzerResolve(i, o)
    \/ \E f \in Files, w \in {nX, nP}, b \in BOOLEAN, ws \in Workspaces :
          ProvideReferences(f, w, b, ws)

SpecReferences == Init /\ [][NextReferences]_vars

\* The whole-word occurrences of word in the files of the workspace that can
\* be opened, as locations counted from zero.
Occurrences(workspace, word) ==
    UNION { { [uri |-> workspace[n].uri, line |-> l - 1, character |-> c - 1] :
                 <<l, c>> \in
                   { p \in (DOMAIN workspace[n].lines) \X (1..6) :
                       LET line == workspace[n].lines[p[1]]
                           before == p[2] - 1
                           after == p[2] + Len(word)
                       IN  /\ after - 1 <= Len(line)
                           /\ \A k \in DOMAIN word :
                                 line[p[2] + k - 1] = word[k]
                           /\ before >= 1
                                 => line[before] \notin IdentPartChars
                           /\ after <= Len(line)
                                 => line[after] \notin IdentPartChars } } :
            n \in { m \in DOMAIN workspace : workspace[m].opens } }

\* --------------------------------------------------------------------- C35
\* C35: find-references returns no two locations with the same file, line
\* and column; the declaration, when it is included and located (non-empty
\* file, line at least 1), is the first location and appears once, also
\* when the text matches at its position; every whole-word match in the
\* files that can be opened is returned once and nothing else is; a file
\* that cannot be opened is skipped; without a workspace folder only the
\* declaration, if any, is returned.
C35_ReferencesWithoutDuplicates ==
    last.op = "references" =>
        LET sym == FindDefinition(globalSymbols, last.word)
            located == /\ last.include
                       /\ sym # Null
                       /\ Val(sym).file # ""
                       /\ Val(sym).line >= 1
            declaration ==
                [uri |-> Val(sym).file, line |-> Val(sym).line - 1,
                 character |-> IF Val(sym).col >= 1 THEN Val(sym).col - 1
                               ELSE 0]
            found == IF last.workspace = Null THEN {}
                     ELSE Occurrences(Val(last.workspace), last.word)
        IN  /\ \A i, j \in DOMAIN last.ret :
                  last.ret[i] = last.ret[j] => i = j
            /\ located => (last.ret # <<>> /\ last.ret[1] = declaration)
            /\ Range(last.ret)
                  = found \cup (IF located THEN {declaration} ELSE {})

\* The declaration of x, at a position where the text of a.mut matches too,
\* is the first of the four locations returned; the x of `1x` and those of
\* `xx` are not among them, nor the matches in the file that did not open.
C35_Witness ==
    /\ last.op = "references"
    /\ last.word = nX
    /\ last.include
    /\ Len(last.ret) = 4
    /\ last.ret[1] = [uri |-> "a.mut", line |-> 1, character |-> 0]
    /\ \E i \in 2..4 : last.ret[i].uri = "b.mut"


\* ===================================================== definition locations

\* Analyzer results whose symbols named x differ in where they are: one
\* without a file, one at column 0, one at line 0 (a module), and one at
\* line 3, column 4.
DefinitionResults(f) ==
    { Result(f, <<Sym(nX, "variable", "", 1, 1, "int", "")>>, <<>>),
      Result(f, <<Sym(nX, "function", f, 2, 0, "()", "")>>, <<>>),
      Result(f, <<Sym(nX, "module", f, 0, 0, "", "")>>, <<>>),
      Result(f, <<Sym(nP, "variable", f, 1, 1, "P", ""),
                  Sym(nPx, "field", f, 3, 4, "int", "P")>>, <<>>) }

\* The definition specification: documents are opened, analyzed and closed,
\* and go-to-definition is asked about them.
NextDefinition ==
    \/ \E f \in Files : OpenDoc(f)
    \/ \E f \in Files : CloseDoc(f)
    \/ \E i \in DOMAIN inflight :
          \E o \in Outcomes(DefinitionResults(inflight[i].file)) :
              AnalyzerResolve(i, o)
    \/ \E f \in Files, dot \in ResolveDots, word \in ResolveWords :
          GoToDefinition(f, dot, word)

SpecDefinition == Init /\ [][NextDefinition]_vars

\* --------------------------------------------------------------------- C36
\* C36: go-to-definition returns a location only for a symbol of the index
\* with a non-empty file and a line of at least 1, and the location is then
\* line - 1 and the larger of 0 and col - 1 in that symbol's file; when the
\* selected symbol has no file or a line of 0 or less, or no symbol matches,
\* it returns nothing.
C36_DefinitionOnlyWhereLocated ==
    last.op = "definition" =>
        IF /\ last.sym # Null
           /\ Val(last.sym).file # ""
           /\ Val(last.sym).line >= 1
        THEN /\ last.ret # Null
             /\ Val(last.ret).uri = Val(last.sym).file
             /\ Val(last.ret).line = Val(last.sym).line - 1
             /\ Val(last.ret).character
                   = (IF Val(last.sym).col >= 1 THEN Val(last.sym).col - 1
                      ELSE 0)
             /\ \E i \in DOMAIN globalSymbols :
                   \E k \in DOMAIN globalSymbols[i][2] :
                       globalSymbols[i][2][k] = Val(last.sym)
        ELSE last.ret = Null

\* Go-to-definition on a function at line 2, column 0 gives line 1,
\* character 0 of its file.
C36_Witness ==
    /\ last.op = "definition"
    /\ last.sym # Null
    /\ Val(last.sym).col = 0
    /\ Val(last.sym).line = 2
    /\ last.ret = Some([uri |-> last.file, line |-> 1, character |-> 0])

\* States in which go-to-definition selected a module at line 0, or a
\* variable without a file, and returned nothing.
C36_NothingForUnlocated ==
    /\ last.op = "definition"
    /\ last.sym # Null
    /\ Val(last.sym).line = 0 \/ Val(last.sym).file = ""
    /\ last.ret = Null


\* --------------------------------------------------------------------- C37
\* C37: after dispose() no debounce timer is pending, and no step after it
\* starts an analyzer invocation: a debounced request issued before dispose
\* never leads to an analysis afterwards.
C37_DisposeCancelsDebounced ==
    /\ [](disposed =>
             /\ timers = {}
             /\ \A f \in Files : debounceTimers[f] = Null)
    /\ [][disposed =>
             /\ last'.op # "fire"
             /\ ~last'.started
             /\ \A f \in Files :
                   Cardinality(PendingFor(f)') <= Cardinality(PendingFor(f))]_vars

\* dispose() has just cleared the pending debounce timer of a.mut.
C37_Witness ==
    /\ disposed
    /\ last.op = "dispose"
    /\ "a.mut" \in last.cleared
    /\ timers = {}


\* ============================================== debugTracker.ts: variables

DigitChars == {"0", "1", "2", "3", "4", "5", "6", "7", "8", "9"}

\* TEMP_RE.test(name), line 16: _t and then one digit or more, nothing else.
TempRe(name) ==
    /\ Len(name) >= 3
    /\ name[1] = "_"
    /\ name[2] = "t"
    /\ \A k \in 3..Len(name) : name[k] \in DigitChars

\* name.startsWith(prefix)
StartsWith(name, prefix) ==
    /\ Len(name) >= Len(prefix)
    /\ SubSeq(name, 1, Len(prefix)) = prefix

\* INTERNAL_RE.test(name), line 18.
InternalRe(name) ==
    \/ StartsWith(name, <<"_", "_", "l", "a", "n", "g", "_", "r", "t", "_">>)
    \/ StartsWith(name, <<"_", "_", "c", "l", "i", "b", "_", "_">>)
    \/ StartsWith(name, <<"_", "_", "L", "A", "N", "G", "_", "R", "T", "_">>)

\* name.replace(MANGLE_SUFFIX_RE, ''), lines 20 and 52: the first place
\* where an underscore is followed by digits only, up to the end, is where
\* the name is cut.
StripMangleSuffix(name) ==
    LET hits == { i \in DOMAIN name :
                    /\ name[i] = "_"
                    /\ \A k \in (i + 1)..Len(name) : name[k] \in DigitChars }
        first == CHOOSE i \in hits : \A j \in hits : i <= j
    IN  IF hits = {} THEN name ELSE SubSeq(name, 1, first - 1)

\* !v.evaluateName: undefined or the empty string.
NoEvaluateName(v) == v.evaluateName = Null \/ v.evaluateName = Some(<<>>)

\* A demangling that leaves evaluateName as it was.
DemangleNameOnly(v) ==
    LET demangled == StripMangleSuffix(v.name)
    IN  IF StartsWith(v.name, <<"_", "_">>) THEN v
        ELSE IF Len(demangled) > 0 /\ demangled # v.name
        THEN [v EXCEPT !.name = demangled]
        ELSE v

\* The callback of map, lines 47-61.
Demangle(v) ==
    LET demangled == StripMangleSuffix(v.name)
    IN  IF StartsWith(v.name, <<"_", "_">>) THEN v
        ELSE IF Len(demangled) > 0 /\ demangled # v.name
        THEN [v EXCEPT !.name = demangled,
                       !.evaluateName = IF NoEvaluateName(v) THEN Some(v.name)
                                        ELSE @]
        ELSE v

\* The callback of filter, lines 39-46.
Shown(v) == ~TempRe(v.name) /\ ~InternalRe(v.name)

\* The message after onDidSendMessage, lines 31-63; body is null when the
\* message has no body.variables.
Tracked(message) ==
    IF /\ message.type = "response"
       /\ message.command = "variables"
       /\ message.success
       /\ message.body # Null
    THEN LET kept == SelectSeq(Val(message.body), Shown)
         IN  [message EXCEPT
                 !.body = Some([k \in DOMAIN kept |-> Demangle(kept[k])])]
    ELSE message

\* onDidSendMessage(message): the tracker keeps no state of its own.
OnDidSendMessage(message) ==
    /\ last' = [op |-> "message", file |-> "", started |-> FALSE,
                message |-> message, ret |-> Tracked(message)]
    /\ UNCHANGED <<cacheVars, timerVars, analyzing, inflight, openDocs,
                   disposed, quietClosed>>

\* Names of the variables a debug adapter reports: temporaries, runtime
\* internals, mangled names, and names that are none of these.
DebugNames ==
    { <<"_", "t", "1">>,
      <<"_", "t", "1", "_">>,
      <<"x", "_">>,
      <<"x", "_", "1", "2">>,
      <<"x">>,
      <<"_">>,
      <<"_", "_", "x", "_">>,
      <<"_", "_", "c", "l", "i", "b", "_", "_", "x">>,
      <<"_", "_", "l", "a", "n", "g", "_", "r", "t", "_">>,
      <<"_", "_", "L", "A", "N", "G", "_", "R", "T", "_", "1">> }

\* The variables: each name without evaluateName, and a mangled name with
\* an empty and with a set evaluateName.
DebugVariables ==
    { [name |-> n, evaluateName |-> Null] : n \in DebugNames }
    \cup { [name |-> <<"x", "_">>, evaluateName |-> Some(e)] :
             e \in { <<>>, <<"e">> } }

\* The bodies of the responses to `variables`: no variables property, or up
\* to MaxVars variables.
DebugBodies ==
    {Null} \cup
    { Some(vs) : vs \in UNION { [1..n -> DebugVariables] : n \in 0..MaxVars } }

\* Messages of a debug adapter: the successful responses to `variables`,
\* and failed responses, events and responses to another command that
\* carry variables too.
DebugMessages ==
    [type : {"response"}, command : {"variables"}, success : {TRUE},
     body : DebugBodies]
    \cup
    { [type |-> e[1], command |-> e[2], success |-> e[3], body |-> b] :
        e \in { <<"response", "variables", FALSE>>,
                <<"event", "variables", TRUE>>,
                <<"response", "scopes", TRUE>> },
        b \in { Null,
                Some(<<[name |-> <<"_", "t", "1">>, evaluateName |-> Null]>>),
                Some(<<[name |-> <<"x", "_">>, evaluateName |-> Null]>>) } }

\* The debug specification: the adapter sends messages.
NextDebug == \E m \in DebugMessages : OnDidSendMessage(m)

SpecDebug == Init /\ [][NextDebug]_vars

\* A name of the form _t<digits>.
IsTemporaryName(n) ==
    \E d \in 1..Len(n) :
        /\ Len(n) = d + 2
        /\ SubSeq(n, 1, 2) = <<"_", "t">>
        /\ \A k \in 1..d : n[2 + k] \in DigitChars

\* A name with one of the three prefixes of the runtime.
IsInternalName(n) ==
    \E p \in { <<"_", "_", "l", "a", "n", "g", "_", "r", "t", "_">>,
               <<"_", "_", "c", "l", "i", "b", "_", "_">>,
               <<"_", "_", "L", "A", "N", "G", "_", "R", "T", "_">> } :
        \E rest \in 0..Len(n) :
            /\ Len(n) = Len(p) + rest
            /\ \A k \in DOMAIN p : n[k] = p[k]

\* shown is name without one trailing underscore and the digits after it.
IsDemangledFrom(shown, name) ==
    /\ shown # <<>>
    /\ Len(shown) < Len(name)
    /\ \A k \in DOMAIN shown : shown[k] = name[k]
    /\ name[Len(shown) + 1] = "_"
    /\ \A k \in (Len(shown) + 2)..Len(name) : name[k] \in DigitChars

\* A name that begins with two underscores.
IsReserved(n) == Len(n) >= 2 /\ n[1] = "_" /\ n[2] = "_"

\* The message is a successful response to `variables` with variables.
IsVariablesResponse(m) ==
    /\ m.type = "response"
    /\ m.command = "variables"
    /\ m.success
    /\ m.body # Null

\* The variables of the message whose names, as the adapter sent them, are
\* neither temporaries nor internal: the indices, in order.
Survivors(m) ==
    { k \in DOMAIN Val(m.body) :
        /\ ~IsTemporaryName(Val(m.body)[k].name)
        /\ ~IsInternalName(Val(m.body)[k].name) }

\* --------------------------------------------------------------------- C38
\* C38: for every successful response to `variables`, after the tracker has
\* run no variable of the response has a name that is a compiler temporary
\* or an internal runtime name; every variable whose name demangling changed
\* has a non-empty evaluateName, its original C name unless one was set
\* already; every other message is left unchanged.
C38_NoTemporaryOrInternalName ==
    last.op = "message" =>
        IF IsVariablesResponse(last.message)
        THEN LET out == Val(last.ret.body)
             IN  \A k \in DOMAIN out :
                     /\ ~IsTemporaryName(out[k].name)
                     /\ ~IsInternalName(out[k].name)
        ELSE last.ret = last.message

\* C38 as the code has it: the response holds, in order, the variables the
\* adapter sent under a name that is neither a temporary nor internal; each
\* is unchanged, or has the demangled name (of a name that does not start
\* with two underscores) and a non-empty evaluateName, which is the one it
\* had or else the name the adapter sent; no name in the response is an
\* internal runtime name, and a name in it is a temporary's only when it is
\* demangled; every other message is left unchanged.
C38_FilteredByTheNameSent ==
    last.op = "message" =>
        IF IsVariablesResponse(last.message)
        THEN LET sent == Val(last.message.body)
                 out == Val(last.ret.body)
                 kept == Survivors(last.message)
                 Place(k) == Cardinality({ j \in kept : j <= k })
             IN  /\ Len(out) = Cardinality(kept)
                 /\ last.ret = [last.message EXCEPT !.body = Some(out)]
                 /\ \A k \in kept :
                       LET v == sent[k]
                           w == out[Place(k)]
                       IN  /\ ~IsInternalName(w.name)
                           /\ IsTemporaryName(w.name) => w.name # v.name
                           /\ \/ w = v
                              \/ /\ IsDemangledFrom(w.name, v.name)
                                 /\ ~IsReserved(v.name)
                                 /\ w.evaluateName # Null
                                 /\ Val(w.evaluateName) # <<>>
                                 /\ w.evaluateName =
                                       (IF v.evaluateName \in {Null, Some(<<>>)}
                                        THEN Some(v.name)
                                        ELSE v.evaluateName)
                           /\ w = v =>
                                 \/ IsReserved(v.name)
                                 \/ \A s \in { SubSeq(v.name, 1, n) :
                                                 n \in 1..Len(v.name) } :
                                        ~IsDemangledFrom(s, v.name)
        ELSE last.ret = last.message

\* A response with the temporary _t1 and the mangled x_12: the tracker
\* leaves the one variable x, with evaluateName x_12.
C38_Witness ==
    /\ last.op = "message"
    /\ IsVariablesResponse(last.message)
    /\ Len(Val(last.message.body)) = 2
    /\ Val(last.message.body)[1].name = <<"_", "t", "1">>
    /\ last.ret.body = Some(<<[name |-> <<"x">>,
                               evaluateName |->
                                   Some(<<"x", "_", "1", "2">>)]>>)

=============================================================================
